---- MODULE Spec2Model ----
(***************************************************************************)
(* Model of the rate-limited aggregation engine of slack_emoji_usage:      *)
(*   slack_client.py  - _respect_interval and the three client operations  *)
(*   aggregator.py    - _perform_aggregation                               *)
(*   query_builder.py - build_monthly_queries, validate_query              *)
(*                                                                         *)
(* Time is counted in whole seconds.  The code reads the clock only as a   *)
(* difference, time.perf_counter() - _last_call_ts, and time.sleep only    *)
(* takes a duration, so the model keeps those differences: the time since  *)
(* _last_call_ts was written, and what is left of each sleep.  A thread    *)
(* computes in zero time; time passes only while some thread is blocked:   *)
(* in time.sleep, waiting for the Slack API to answer, or idle between two *)
(* calls of its caller.                                                    *)
(***************************************************************************)
EXTENDS Integers, Sequences, FiniteSets

VARIABLES
  settings,          \* slack_client.settings: min_interval_sec, max_retry
  since_last_call,   \* time.perf_counter() - _last_call_ts (at most MaxElapsed)
  threads,           \* the execution paths that call the client
  pc,                \* per thread: position inside the client operation
  op,                \* per thread: the operation being executed
  query,             \* per thread: the query argument of search_messages_safe
  attempt,           \* per thread: the loop variable `attempt`
  timer,             \* per thread: seconds left of the time.sleep it is in
  late,              \* per thread: seconds it stayed blocked beyond need
  resp,              \* per thread: the last answer of the Slack API
  ret,               \* per thread: what the operation returned or raised
  log,               \* per thread: events of the current call, in order
  since_dispatch,    \* time since the last dispatch to the Slack API (NoTs: none)
  last_gap,          \* time between the last two dispatches (NoTs: none)
  dispatched_ops,    \* the operations that were dispatched to the Slack API
  calls_left,        \* per thread: calls its free caller still makes
  agg_pc,            \* position inside _perform_aggregation ("none": not running)
  emoji_list,        \* argument of _perform_aggregation
  month_periods,     \* argument of _perform_aggregation
  emoji_idx,         \* position of the outer loop, 1-based (0: not started)
  month_idx,         \* position of the inner loop, 1-based (0: not started)
  records,           \* the rows collected so far
  total_queries,
  processed_queries,
  text_count,        \* local of the current pair (NoCount: not assigned)
  reaction_count,    \* local of the current pair (NoCount: not assigned)
  gave_up,           \* queries of the current pair that ran out of retries
  run_pc,            \* position inside aggregate_emoji_usage ("none": not running)
  args,              \* arguments and environment of aggregate_emoji_usage
  fs,                \* the output path: the report file and its backup
  loaded,            \* what load_emojis returned (NotLoaded: not yet)
  result,            \* what aggregate_emoji_usage returned ("none": not yet)
  run_log,           \* what the run did to the output path, and its interrupt
  qb_pc,             \* position inside generate_period_starts ("none": not running)
  qb_in,             \* today's date, total_months, interval_months
  period_starts,     \* the list generate_period_starts builds
  qb_i,              \* its loop variable i
  built,             \* per period start: what the query builders made of it
  pivot_pc,          \* position inside _convert_to_pivot ("none": not running)
  pivot_in,          \* its argument records
  pivot_i,           \* rows of records it has consumed
  data,              \* its dictionary data: symbol -> period -> count
  periods,           \* its set periods
  out,               \* the rows of the report file at output_path
  build_no,          \* how many times _write_pivot_csv was called on records
  first              \* how the first of these calls ended, and the file it left

aggVars == <<agg_pc, emoji_list, month_periods, emoji_idx, month_idx, records,
             total_queries, processed_queries, text_count, reaction_count,
             gave_up>>

\* the frame of a client operation
frameVars == <<pc, op, query, attempt, resp, ret, log>>

timeVars == <<since_last_call, since_dispatch, last_gap, dispatched_ops, timer, late>>

clientVars == <<settings, threads, calls_left, frameVars, timeVars>>

runVars == <<run_pc, args, fs, loaded, result, run_log>>

qbVars == <<qb_pc, qb_in, period_starts, qb_i, built>>

pivotVars == <<pivot_pc, pivot_in, pivot_i, data, periods, out, build_no, first>>

\* what neither the client nor _perform_aggregation touches
restVars == <<runVars, qbVars, pivotVars>>

vars == <<clientVars, aggVars, restVars>>

(***************************************************************************)
(* Settings (config.py) and the bounds of the model.                       *)
(***************************************************************************)
DefaultMinIntervalSec == 5
DefaultMaxRetry == 3
DefaultSettings ==
  [min_interval_sec |-> DefaultMinIntervalSec, max_retry |-> DefaultMaxRetry]

MaxRetryAfter == 1    \* Retry-After header values are 0..MaxRetryAfter
MaxCount == 1         \* a search answers a total in 0..MaxCount
MaxLatency == 1       \* the API answers within MaxLatency seconds
MaxIdle == 6          \* a free caller waits at most MaxIdle seconds between calls
MaxOversleep == 0     \* time.sleep returns at most MaxOversleep seconds late
MaxElapsed == 6       \* a longer time is counted as MaxElapsed
MaxCalls == 2         \* calls a free caller makes
MaxTotalMonths == 6   \* total_months is in 1..MaxTotalMonths
MaxIntervalMonths == 6 \* interval_months is in 1..MaxIntervalMonths
MaxRows == 3          \* _convert_to_pivot gets at most MaxRows records

NoTs == -1
NoCount == -1
NoQuery == <<>>
NoResp == [kind |-> "none", val |-> 0]
NoRet == [kind |-> "none", val |-> 0]

Ops == {"search", "emojis", "workspace"}

Event(e, a) == [ev |-> e, arg |-> a]

Min(a, b) == IF a < b THEN a ELSE b

(***************************************************************************)
(* What the Slack API may answer to a dispatch.                            *)
(*   ok        a response (for emoji.list and team.info: with ok = true)   *)
(*   empty     no response, or one without "messages" (search only)        *)
(*   not_ok    a response whose "ok" is false                              *)
(*   429       SlackApiError, status 429, Retry-After = val                *)
(*   api_error SlackApiError with another status                           *)
(*   exc       any other exception of the transport                        *)
(***************************************************************************)
Responses(o) ==
  {[kind |-> "429", val |-> d] : d \in 0..MaxRetryAfter}
    \cup {[kind |-> "api_error", val |-> 0], [kind |-> "exc", val |-> 0]}
    \cup CASE o = "search" ->
                {[kind |-> "ok", val |-> n] : n \in 0..MaxCount}
                  \cup {[kind |-> "empty", val |-> 0]}
           [] o = "emojis" ->
                {[kind |-> "ok", val |-> <<>>], [kind |-> "ok", val |-> <<"c1">>],
                 [kind |-> "not_ok", val |-> 0]}
           [] OTHER ->
                {[kind |-> "ok", val |-> "team"], [kind |-> "ok", val |-> "empty"],
                 [kind |-> "not_ok", val |-> 0]}

Raised == [kind |-> "raised", val |-> 0]

\* an operation that raises when its retries run out
GiveUpValue_Raise(o) == Raised

\* the value each operation returns after its loop ran out (or broke out)
GiveUpValue(o) ==
  CASE o = "search" -> [kind |-> "value", val |-> 0]
    [] o = "emojis" -> [kind |-> "value", val |-> <<>>]
    [] OTHER -> [kind |-> "value", val |-> "None"]

\* the value each operation returns for an answer it accepts
OkValue(o, r) ==
  CASE o = "search" -> [kind |-> "value", val |-> IF r.kind = "empty" THEN 0 ELSE r.val]
    [] o = "emojis" -> [kind |-> "value", val |-> r.val]
    [] OTHER -> [kind |-> "value", val |-> r.val]

\* a loop that runs one attempt too many
AttemptInRange_OneMore(a) == a <= settings.max_retry + 1

\* for attempt in range(1, settings.max_retry + 1)
AttemptInRange(a) == a <= settings.max_retry

\* if elapsed < settings.min_interval_sec
MustSleep(e) == e < settings.min_interval_sec

\* a sleep that is one second short
SleepTime_Short(e) == settings.min_interval_sec - e - 1

\* sleep_time = settings.min_interval_sec - elapsed
SleepTime(e) == settings.min_interval_sec - e

\* a backoff without the one-second buffer
RetrySec_NoBuffer(retry_after) == retry_after

\* retry_sec = retry_after + 1
RetrySec(retry_after) == retry_after + 1

\* the exception is a SlackApiError: raised by the SDK, or by the operation
\* itself for a response whose "ok" is false
IsSlackApiError(r) == r.kind \in {"429", "api_error", "not_ok"}

\* a handler that retries on every SlackApiError
IsRateLimited_Any(r) == TRUE

\* if e.response.status_code == 429
IsRateLimited(r) == r.kind = "429"

\* the thread enters a blocking call that lasts at least n seconds
Block(t, n) ==
  /\ timer' = [timer EXCEPT ![t] = n]
  /\ late' = [late EXCEPT ![t] = 0]

\* the blocking call of the thread returns
Unblock(t) ==
  /\ timer[t] <= 0
  /\ timer' = [timer EXCEPT ![t] = 0]
  /\ late' = [late EXCEPT ![t] = 0]

(***************************************************************************)
(* The head of the retry loop, and _respect_interval in its three steps:   *)
(* read, sleep, write.                                                     *)
(***************************************************************************)
LoopHead(t) ==
  /\ pc[t] = "loop"
  /\ IF AttemptInRange(attempt[t])
       THEN /\ pc' = [pc EXCEPT ![t] = "read"]
            /\ ret' = ret
       ELSE /\ pc' = [pc EXCEPT ![t] = "done"]
            /\ ret' = [ret EXCEPT ![t] = GiveUpValue(op[t])]
  /\ UNCHANGED <<settings, threads, calls_left, op, query, attempt, resp, log,
                 timeVars, aggVars, restVars>>

RespectRead(t) ==
  /\ pc[t] = "read"
  /\ LET elapsed == since_last_call
     IN IF MustSleep(elapsed)
          THEN /\ pc' = [pc EXCEPT ![t] = "sleep"]
               /\ Block(t, SleepTime(elapsed))
          ELSE /\ pc' = [pc EXCEPT ![t] = "write"]
               /\ UNCHANGED <<timer, late>>
  /\ UNCHANGED <<settings, threads, calls_left, op, query, attempt, resp, ret,
                 log, since_last_call, since_dispatch, last_gap,
                 dispatched_ops, aggVars, restVars>>

RespectSleep(t) ==
  /\ pc[t] = "sleep"
  /\ Unblock(t)
  /\ pc' = [pc EXCEPT ![t] = "write"]
  /\ UNCHANGED <<settings, threads, calls_left, op, query, attempt, resp, ret,
                 log, since_last_call, since_dispatch, last_gap,
                 dispatched_ops, aggVars, restVars>>

\* a pace step that leaves _last_call_ts as it was
Stamp_Skipped(elapsed) == elapsed

\* time.perf_counter() - _last_call_ts once _last_call_ts is set to now
Stamp(elapsed) == 0

\* _last_call_ts = time.perf_counter()
RespectWrite(t) ==
  /\ pc[t] = "write"
  /\ since_last_call' = Stamp(since_last_call)
  /\ log' = [log EXCEPT ![t] = Append(@, Event("pace", 0))]
  /\ pc' = [pc EXCEPT ![t] = "dispatch"]
  /\ UNCHANGED <<settings, threads, calls_left, op, query, attempt, resp, ret,
                 since_dispatch, last_gap, dispatched_ops, timer, late,
                 aggVars, restVars>>

(***************************************************************************)
(* The body of the retry loop, the same in the three operations but for    *)
(* what they do with an error that is not a rate limit.                    *)
(***************************************************************************)
Dispatch(t) ==
  /\ pc[t] = "dispatch"
  /\ log' = [log EXCEPT ![t] = Append(@, Event("dispatch", 0))]
  /\ last_gap' = since_dispatch
  /\ dispatched_ops' = dispatched_ops \cup {op[t]}
  /\ since_dispatch' = 0
  /\ Block(t, 0)
  /\ pc' = [pc EXCEPT ![t] = "await"]
  /\ UNCHANGED <<settings, threads, calls_left, op, query, attempt, resp, ret,
                 since_last_call, aggVars, restVars>>

RespondOk(t) ==
  /\ pc[t] = "await"
  /\ Unblock(t)
  /\ \E r \in Responses(op[t]) :
       /\ r.kind \in {"ok", "empty"}
       /\ resp' = [resp EXCEPT ![t] = r]
       /\ ret' = [ret EXCEPT ![t] = OkValue(op[t], r)]
  /\ pc' = [pc EXCEPT ![t] = "done"]
  /\ UNCHANGED <<settings, threads, calls_left, op, query, attempt, log,
                 since_last_call, since_dispatch, last_gap, dispatched_ops,
                 aggVars, restVars>>

RespondRateLimited(t) ==
  /\ pc[t] = "await"
  /\ \E r \in Responses(op[t]) :
       /\ IsSlackApiError(r) /\ IsRateLimited(r)
       /\ resp' = [resp EXCEPT ![t] = r]
       /\ log' = [log EXCEPT ![t] =
                    @ \o <<Event("reject", r.val), Event("sleep", RetrySec(r.val))>>]
       /\ Block(t, RetrySec(r.val))
  /\ pc' = [pc EXCEPT ![t] = "backoff"]
  /\ UNCHANGED <<settings, threads, calls_left, op, query, attempt, ret,
                 since_last_call, since_dispatch, last_gap, dispatched_ops,
                 aggVars, restVars>>

\* a retry that is not counted
NextAttempt_Same(a) == a

\* the loop variable of `for attempt in range(...)` at the next iteration
NextAttempt(a) == a + 1

\* time.sleep(retry_sec) returns; continue
BackoffWake(t) ==
  /\ pc[t] = "backoff"
  /\ Unblock(t)
  /\ attempt' = [attempt EXCEPT ![t] = NextAttempt(@)]
  /\ pc' = [pc EXCEPT ![t] = "loop"]
  /\ UNCHANGED <<settings, threads, calls_left, op, query, resp, ret, log,
                 since_last_call, since_dispatch, last_gap, dispatched_ops,
                 aggVars, restVars>>

\* search_messages_safe and get_custom_emojis re-raise; get_workspace_info
\* breaks out of the loop and returns None
OnApiError(o) == IF o = "workspace" THEN GiveUpValue(o) ELSE Raised

RespondError(t) ==
  /\ pc[t] = "await"
  /\ Unblock(t)
  /\ \E r \in Responses(op[t]) :
       /\ \/ IsSlackApiError(r) /\ ~IsRateLimited(r)
          \/ r.kind = "exc"
       /\ resp' = [resp EXCEPT ![t] = r]
       /\ ret' = [ret EXCEPT ![t] =
                    IF IsSlackApiError(r) THEN OnApiError(op[t]) ELSE Raised]
  /\ pc' = [pc EXCEPT ![t] = "done"]
  /\ UNCHANGED <<settings, threads, calls_left, op, query, attempt, log,
                 since_last_call, since_dispatch, last_gap, dispatched_ops,
                 aggVars, restVars>>

(***************************************************************************)
(* Time: one second passes.                                                *)
(***************************************************************************)
Blocked(t) ==
  \/ pc[t] \in {"sleep", "backoff", "await"}
  \/ pc[t] = "idle" /\ calls_left[t] > 0

\* how long beyond need a blocked thread may stay blocked
Allowance(t) ==
  CASE pc[t] \in {"sleep", "backoff"} -> MaxOversleep
    [] pc[t] = "await" -> MaxLatency
    [] OTHER -> MaxIdle

Tick ==
  /\ \E t \in threads : Blocked(t) /\ (timer[t] > 0 \/ late[t] < Allowance(t))
  /\ since_last_call' = Min(since_last_call + 1, MaxElapsed)
  /\ since_dispatch' =
       IF since_dispatch = NoTs THEN NoTs ELSE Min(since_dispatch + 1, MaxElapsed)
  /\ timer' = [t \in threads |->
                 IF Blocked(t) /\ timer[t] > 0 THEN timer[t] - 1 ELSE timer[t]]
  /\ late' = [t \in threads |->
                IF Blocked(t) /\ timer[t] <= 0
                  THEN Min(late[t] + 1, Allowance(t)) ELSE late[t]]
  /\ UNCHANGED <<settings, threads, calls_left, frameVars, last_gap,
                 dispatched_ops, aggVars, restVars>>

(***************************************************************************)
(* A free caller: any mix of the three operations, one call after another. *)
(***************************************************************************)
StartCall(t, o, q) ==
  /\ pc' = [pc EXCEPT ![t] = "loop"]
  /\ op' = [op EXCEPT ![t] = o]
  /\ query' = [query EXCEPT ![t] = q]
  /\ attempt' = [attempt EXCEPT ![t] = 1]
  /\ resp' = [resp EXCEPT ![t] = NoResp]
  /\ ret' = [ret EXCEPT ![t] = NoRet]
  /\ log' = [log EXCEPT ![t] = <<>>]

\* the operation's frame is gone once its caller has the result
EndCall(t) ==
  /\ pc' = [pc EXCEPT ![t] = "idle"]
  /\ op' = [op EXCEPT ![t] = "none"]
  /\ query' = [query EXCEPT ![t] = NoQuery]
  /\ attempt' = [attempt EXCEPT ![t] = 0]
  /\ resp' = [resp EXCEPT ![t] = NoResp]
  /\ ret' = [ret EXCEPT ![t] = NoRet]
  /\ log' = [log EXCEPT ![t] = <<>>]

Call(t) ==
  /\ pc[t] = "idle"
  /\ calls_left[t] > 0
  /\ \E o \in Ops : StartCall(t, o, NoQuery)
  /\ calls_left' = [calls_left EXCEPT ![t] = @ - 1]
  /\ late' = [late EXCEPT ![t] = 0]
  /\ UNCHANGED <<settings, threads, since_last_call, since_dispatch, last_gap,
                 dispatched_ops, timer, aggVars, restVars>>

Return(t) ==
  /\ pc[t] = "done"
  /\ EndCall(t)
  /\ UNCHANGED <<settings, threads, calls_left, timeVars, aggVars, restVars>>

\* _last_call_ts = 0.0 and perf_counter() is anything: the first call finds
\* an elapsed time of 0 or of MaxElapsed
InitThreads(T, n, cfg) ==
  /\ settings = cfg
  /\ since_last_call \in {0, MaxElapsed}
  /\ threads = T
  /\ pc = [t \in T |-> "idle"]
  /\ op = [t \in T |-> "none"]
  /\ query = [t \in T |-> NoQuery]
  /\ attempt = [t \in T |-> 0]
  /\ timer = [t \in T |-> 0]
  /\ late = [t \in T |-> 0]
  /\ resp = [t \in T |-> NoResp]
  /\ ret = [t \in T |-> NoRet]
  /\ log = [t \in T |-> <<>>]
  /\ since_dispatch = NoTs
  /\ last_gap = NoTs
  /\ dispatched_ops = {}
  /\ calls_left = [t \in T |-> n]

(***************************************************************************)
(* query_builder.py: dates, strftime and the two queries of a pair.  A     *)
(* string is the sequence of its pieces; a piece knows its length and      *)
(* whether a ':' occurs in it.                                             *)
(***************************************************************************)
Date(y, m, d) == [y |-> y, m |-> m, d |-> d]

IsLeap(y) == (y % 4 = 0 /\ y % 100 # 0) \/ y % 400 = 0

\* a calendar without leap years
DaysInMonth_NoLeap(y, m) == IF m = 2 THEN 28 ELSE IF m \in {4, 6, 9, 11} THEN 30 ELSE 31

DaysInMonth(y, m) ==
  IF m = 2 THEN (IF IsLeap(y) THEN 29 ELSE 28)
  ELSE IF m \in {4, 6, 9, 11} THEN 30 ELSE 31

\* date + relativedelta(months=n): the day is clipped to the month's length
AddMonths(dt, n) ==
  LET k == dt.y * 12 + (dt.m - 1) + n
      y == k \div 12
      m == (k % 12) + 1
  IN Date(y, m, Min(dt.d, DaysInMonth(y, m)))

\* an end date that is not moved back by a day
MinusOneDay_None(dt) == dt

\* date - relativedelta(days=1)
MinusOneDay(dt) ==
  IF dt.d > 1 THEN Date(dt.y, dt.m, dt.d - 1)
  ELSE IF dt.m > 1 THEN Date(dt.y, dt.m - 1, DaysInMonth(dt.y, dt.m - 1))
  ELSE Date(dt.y - 1, 12, 31)

Digit(n) == <<"0", "1", "2", "3", "4", "5", "6", "7", "8", "9">>[n + 1]
Pad2(n) == <<Digit((n \div 10) % 10), Digit(n % 10)>>
Pad4(n) == Pad2(n \div 100) \o Pad2(n % 100)

\* a month that is not padded to two digits
StrftimeYm_NoPad(dt) == Pad4(dt.y) \o <<"-">> \o <<Digit(dt.m % 10)>>

\* strftime("%Y-%m-%d") and strftime("%Y-%m"), character by character
StrftimeYmd(dt) == Pad4(dt.y) \o <<"-">> \o Pad2(dt.m) \o <<"-">> \o Pad2(dt.d)
StrftimeYm(dt) == Pad4(dt.y) \o <<"-">> \o Pad2(dt.m)

\* the emoji names of the model, each with its length in characters
NameLen == [n \in {"a", "b", "c1", "x960"} |->
             IF n = "x960" THEN 960 ELSE IF n = "c1" THEN 2 ELSE 1]

Lit(str, n, colon) == [piece |-> "lit", s |-> str, len |-> n, colon |-> colon]
Name(n) == [piece |-> "name", s |-> n, len |-> NameLen[n], colon |-> FALSE]
Chars(cs) == [piece |-> "chars", s |-> cs, len |-> Len(cs), colon |-> FALSE]

\* f":{emoji_name}: after:{start_str} before:{end_str}"
TextQuery(emoji_name, start_str, end_str) ==
  <<Lit(":", 1, TRUE), Name(emoji_name), Lit(":", 1, TRUE),
    Lit(" after:", 7, TRUE), Chars(start_str),
    Lit(" before:", 8, TRUE), Chars(end_str)>>

\* f"has::{emoji_name}: after:{start_str} before:{end_str}"
ReactionQuery(emoji_name, start_str, end_str) ==
  <<Lit("has:", 4, TRUE)>> \o TextQuery(emoji_name, start_str, end_str)

build_monthly_queries(emoji_name, month_start) ==
  LET month_end == MinusOneDay(AddMonths(month_start, 1))
      start_str == StrftimeYmd(month_start)
      end_str == StrftimeYmd(month_end)
  IN <<TextQuery(emoji_name, start_str, end_str),
       ReactionQuery(emoji_name, start_str, end_str)>>

RECURSIVE QueryLen(_)
QueryLen(q) == IF q = <<>> THEN 0 ELSE Head(q).len + QueryLen(Tail(q))

HasColon(q) == \E i \in 1..Len(q) : q[i].colon

MaxQueryLen == 1000

validate_query(q) ==
  /\ q # <<>>
  /\ ~(QueryLen(q) > MaxQueryLen)
  /\ HasColon(q)

(***************************************************************************)
(* aggregator.py: _perform_aggregation, run by the thread "main".          *)
(***************************************************************************)
Main == "main"

Row(emoji_name, month_str, count) ==
  [emoji |-> emoji_name, month |-> month_str, count |-> count]

\* records.append(...), at a row that puts the new row first
AppendRow_Front(recs, row) == <<row>> \o recs

\* records.append(...)
AppendRow(recs, row) == Append(recs, row)

\* a sum that forgets the text count
TotalCount_ReactionOnly(t, r) == r

\* total_count = text_count + reaction_count
TotalCount(t, r) == t + r

\* an error row that keeps the count the text query returned
DegradedCount_KeepText == IF text_count # NoCount THEN text_count ELSE 0

\* records.append([emoji_name, month_str, 0])
DegradedCount == 0

\* a bare except, which catches KeyboardInterrupt too
Catches_BaseException(r) == TRUE

\* except Exception as e
Catches(r) == r.kind = "raised"

emoji_name == emoji_list[emoji_idx]
month_start == month_periods[month_idx]

\* search_messages_safe ran out of retries: it answered 0 for a rejection
GaveUp(t) == ret[t].kind = "value" /\ resp[t].kind = "429"

AggStart ==
  /\ agg_pc = "start"
  /\ records' = <<>>
  /\ total_queries' = Len(emoji_list) * Len(month_periods) * 2
  /\ processed_queries' = 0
  /\ agg_pc' = "emoji_loop"
  /\ UNCHANGED <<clientVars, restVars, emoji_list, month_periods, emoji_idx,
                 month_idx, text_count, reaction_count, gave_up>>

\* for emoji_idx, emoji_name in enumerate(emoji_list)
AggEmojiLoop ==
  /\ agg_pc = "emoji_loop"
  /\ IF emoji_idx < Len(emoji_list)
       THEN /\ emoji_idx' = emoji_idx + 1
            /\ month_idx' = 0
            /\ agg_pc' = "month_loop"
       ELSE /\ agg_pc' = "done"
            /\ UNCHANGED <<emoji_idx, month_idx>>
  /\ UNCHANGED <<clientVars, restVars, emoji_list, month_periods, records,
                 total_queries, processed_queries, text_count, reaction_count,
                 gave_up>>

\* for month_idx, month_start in enumerate(month_periods): the queries are
\* built and search_messages_safe(text_query) is called
AggMonthLoop ==
  /\ agg_pc = "month_loop"
  /\ IF month_idx < Len(month_periods)
       THEN /\ month_idx' = month_idx + 1
            /\ text_count' = NoCount
            /\ reaction_count' = NoCount
            /\ gave_up' = {}
            /\ StartCall(Main, "search",
                 build_monthly_queries(emoji_name, month_periods[month_idx'])[1])
            /\ agg_pc' = "text"
       ELSE /\ agg_pc' = "emoji_loop"
            /\ UNCHANGED <<month_idx, text_count, reaction_count, gave_up,
                           frameVars>>
  /\ UNCHANGED <<settings, threads, calls_left, timeVars, restVars, emoji_list,
                 month_periods, emoji_idx, records, total_queries,
                 processed_queries>>

\* the except branch of the pair
AggExcept ==
  /\ records' = AppendRow(records, Row(emoji_name, StrftimeYm(month_start), DegradedCount))
  /\ processed_queries' = processed_queries + 2
  /\ agg_pc' = "month_loop"
  /\ EndCall(Main)

\* text_count = search_messages_safe(text_query) returns or raises; on a
\* return search_messages_safe(reaction_query) is called
AggTextReturn ==
  /\ agg_pc = "text"
  /\ pc[Main] = "done"
  /\ IF ret[Main].kind = "value"
       THEN /\ text_count' = ret[Main].val
            /\ gave_up' = IF GaveUp(Main) THEN gave_up \cup {"text"} ELSE gave_up
            /\ processed_queries' = processed_queries + 1
            /\ StartCall(Main, "search",
                 build_monthly_queries(emoji_name, month_start)[2])
            /\ agg_pc' = "reaction"
            /\ UNCHANGED records
       ELSE /\ IF Catches(ret[Main])
                 THEN AggExcept
                 ELSE /\ agg_pc' = "raised"
                      /\ EndCall(Main)
                      /\ UNCHANGED <<records, processed_queries>>
            /\ UNCHANGED <<text_count, gave_up>>
  /\ UNCHANGED <<settings, threads, calls_left, timeVars, restVars, emoji_list,
                 month_periods, emoji_idx, month_idx, total_queries,
                 reaction_count>>

\* reaction_count = search_messages_safe(reaction_query) returns or raises;
\* on a return the row of the pair is appended
AggReactionReturn ==
  /\ agg_pc = "reaction"
  /\ pc[Main] = "done"
  /\ IF ret[Main].kind = "value"
       THEN /\ reaction_count' = ret[Main].val
            /\ gave_up' = IF GaveUp(Main) THEN gave_up \cup {"reaction"} ELSE gave_up
            /\ processed_queries' = processed_queries + 1
            /\ records' = AppendRow(records,
                 Row(emoji_name, StrftimeYm(month_start),
                     TotalCount(text_count, reaction_count')))
            /\ agg_pc' = "month_loop"
            /\ EndCall(Main)
       ELSE /\ IF Catches(ret[Main])
                 THEN AggExcept
                 ELSE /\ agg_pc' = "raised"
                      /\ EndCall(Main)
                      /\ UNCHANGED <<records, processed_queries>>
            /\ UNCHANGED <<reaction_count, gave_up>>
  /\ UNCHANGED <<settings, threads, calls_left, timeVars, restVars,
                 emoji_list, month_periods, emoji_idx, month_idx,
                 total_queries, text_count>>

(***************************************************************************)
(* aggregator.py: aggregate_emoji_usage, run by the thread "main", with    *)
(* csv_writer.validate_output_path and backup_existing_file,               *)
(* emoji_loader.load_emojis and query_builder.generate_month_starts.       *)
(*                                                                         *)
(* args.path is the kind of output path: "ok", "" (empty), "nodir" (its    *)
(* directory cannot be created) or "readonly" (its directory is not        *)
(* writable).  fs.report is the file at the output path: "absent", "old"   *)
(* (of an earlier run), "new" (written by this run) or "partial" (opened   *)
(* for writing by this run and not completed).                             *)
(***************************************************************************)
\* a validation that accepts every path
validate_output_path_Any(path) == TRUE

validate_output_path(path) ==
  /\ path # ""            \* if not output_path
  /\ path # "nodir"       \* output_dir.mkdir raises
  /\ path # "readonly"    \* not os.access(output_dir, os.W_OK)

\* the order of the names in sorted(...)
NameRank == [n \in {"a", "b", "c1", "x960"} |->
               CASE n = "a" -> 1 [] n = "b" -> 2 [] n = "c1" -> 3 [] OTHER -> 4]

RECURSIVE Insert(_, _)
Insert(n, names) ==
  IF names = <<>> THEN <<n>>
  ELSE IF NameRank[n] < NameRank[Head(names)] THEN <<n>> \o names
  ELSE <<Head(names)>> \o Insert(n, Tail(names))

\* sorted(custom_names)
RECURSIVE Sorted(_)
Sorted(names) ==
  IF names = <<>> THEN <<>> ELSE Insert(Head(names), Sorted(Tail(names)))

\* list(dict.fromkeys(all_emojis)): the first occurrence of each name
RECURSIVE Dedup(_, _)
Dedup(names, seen) ==
  IF names = <<>> THEN <<>>
  ELSE IF Head(names) \in seen THEN Dedup(Tail(names), seen)
  ELSE <<Head(names)>> \o Dedup(Tail(names), seen \cup {Head(names)})

\* get_custom_emoji_names: the names get_custom_emojis returned, sorted;
\* an empty list when it raised
get_custom_emoji_names(r) == IF r.kind = "value" THEN Sorted(r.val) ELSE <<>>

\* load_emojis, given what the two sources returned
load_emojis(standard, custom) == Dedup(standard \o custom, {})

\* if include_standard: standard_emojis = get_standard_emojis()
standard_emojis == IF args.include_standard THEN args.standard ELSE <<>>

\* a loader that asks for the custom names whatever the flag says
include_custom_Always == TRUE

\* if include_custom
include_custom == args.include_custom

NotLoaded == [known |-> FALSE, names |-> <<>>]
Loaded(list) == [known |-> TRUE, names |-> list]

\* filter_emojis
filter_emojis(list, max_count) ==
  IF Len(list) <= max_count THEN list ELSE SubSeq(list, 1, max_count)

FirstOfMonth(dt) == Date(dt.y, dt.m, 1)

\* generate_month_starts: the first days of this month and of the months
\* before it, newest first
generate_month_starts(today, months) ==
  [i \in 1..months |-> FirstOfMonth(AddMonths(today, -(i - 1)))]

\* a check of the catalog that lets an empty list pass
NoEmojis_Never(list) == FALSE

\* if not emoji_list
NoEmojis(list) == list = <<>>

\* a call the run makes on the output path, or the KeyboardInterrupt raised
\* in it, with the position of _perform_aggregation at that moment
RunEvent(e) == [ev |-> e, at |-> agg_pc]

\* a caller that goes on while _perform_aggregation is between two pairs
Returned_BetweenPairs(at) == at \in {"done", "month_loop"}

\* records = _perform_aggregation(...): the function has returned
Returned(at) == at = "done"

\* return False (also from the except branch of aggregate_emoji_usage)
RunReturn(value) ==
  /\ result' = value
  /\ run_pc' = "returned"

\* aggregate_emoji_usage after load_emojis returned: the catalog is checked
\* and cut to max_emojis, the periods are generated and _perform_aggregation
\* is called
RunAfterLoad(list) ==
  /\ loaded' = Loaded(list)
  /\ IF NoEmojis(list)
    THEN /\ RunReturn("False")
         /\ UNCHANGED aggVars
    ELSE /\ emoji_list' =
              IF args.max_emojis # 0 THEN filter_emojis(list, args.max_emojis)
              ELSE list
         /\ month_periods' = generate_month_starts(args.today, args.months)
         /\ agg_pc' = "start"
         /\ run_pc' = "aggregate"
         /\ UNCHANGED <<result, emoji_idx, month_idx, records, total_queries,
                        processed_queries, text_count, reaction_count, gave_up>>

\* the output path is validated; on a valid path an existing report is
\* backed up (a failure to copy is only logged) and get_workspace_info is
\* called
RunStart ==
  /\ run_pc = "start"
  /\ IF ~validate_output_path(args.path)
       THEN /\ RunReturn("False")
            /\ run_log' = Append(run_log, RunEvent("validate_output_path"))
            /\ UNCHANGED <<fs, frameVars>>
       ELSE /\ \E copied \in BOOLEAN :
                 fs' = [fs EXCEPT !.backup = fs.report # "absent" /\ copied]
            /\ run_log' = run_log \o <<RunEvent("validate_output_path"),
                                       RunEvent("backup_existing_file")>>
            /\ StartCall(Main, "workspace", NoQuery)
            /\ run_pc' = "workspace"
            /\ UNCHANGED result
  /\ UNCHANGED <<settings, threads, calls_left, timeVars, aggVars, args,
                 loaded, qbVars, pivotVars>>

\* get_workspace_info returned or raised; load_emojis takes the standard
\* names and, if asked to, calls get_custom_emojis
RunWorkspaceReturn ==
  /\ run_pc = "workspace"
  /\ pc[Main] = "done"
  /\ IF ret[Main].kind = "raised"
       THEN /\ RunReturn("False")
            /\ EndCall(Main)
            /\ UNCHANGED <<loaded, aggVars>>
       ELSE IF include_custom
         THEN /\ StartCall(Main, "emojis", NoQuery)
              /\ run_pc' = "custom"
              /\ UNCHANGED <<loaded, result, aggVars>>
         ELSE /\ RunAfterLoad(load_emojis(standard_emojis, <<>>))
              /\ EndCall(Main)
  /\ UNCHANGED <<settings, threads, calls_left, timeVars, args, fs, run_log,
                 qbVars, pivotVars>>

\* get_custom_emojis returned or raised inside get_custom_emoji_names
RunCustomReturn ==
  /\ run_pc = "custom"
  /\ pc[Main] = "done"
  /\ RunAfterLoad(load_emojis(standard_emojis,
                               get_custom_emoji_names(ret[Main])))
  /\ EndCall(Main)
  /\ UNCHANGED <<settings, threads, calls_left, timeVars, args, fs, run_log,
                 qbVars, pivotVars>>

\* what can happen to the report in write_csv: it is written; open() fails
\* and the file is as before; or a write fails after open() truncated it
WriteOutcomes == {"ok", "open_failed", "write_failed"}

\* _perform_aggregation returned; without records the run fails, otherwise
\* write_csv writes the report; an exception of write_csv makes the run fail
RunAggReturn ==
  /\ run_pc = "aggregate"
  /\ Returned(agg_pc)
  /\ IF records = <<>>
       THEN /\ RunReturn("False")
            /\ UNCHANGED <<fs, run_log>>
       ELSE \E w \in WriteOutcomes :
              /\ fs' = [fs EXCEPT !.report =
                          CASE w = "ok" -> "new"
                            [] w = "write_failed" -> "partial"
                            [] OTHER -> @]
              /\ run_log' = Append(run_log, RunEvent("write_csv"))
              /\ RunReturn(IF w = "ok" THEN "True" ELSE "False")
  /\ UNCHANGED <<clientVars, aggVars, args, loaded, qbVars, pivotVars>>

\* KeyboardInterrupt, as the value a call ends with
KeyboardInterrupt == [kind |-> "KeyboardInterrupt", val |-> 0]

\* the user interrupts the run: KeyboardInterrupt is raised where the thread
\* is, in the run or in the client operation it is in.  It goes to the
\* `except Exception` of the pair when a pair is being processed, then to
\* the one of aggregate_emoji_usage; caught by neither, it leaves the run
\* (cli.main prints that the run was interrupted and exits with 1)
Interrupt ==
  /\ run_pc \in {"start", "workspace", "custom", "aggregate"}
  /\ run_log' = Append(run_log, RunEvent("KeyboardInterrupt"))
  /\ IF agg_pc \in {"text", "reaction"} /\ Catches(KeyboardInterrupt)
       THEN /\ AggExcept
            /\ UNCHANGED <<run_pc, result>>
       ELSE /\ EndCall(Main)
            /\ agg_pc' = IF agg_pc = "none" THEN "none" ELSE "interrupted"
            /\ IF Catches(KeyboardInterrupt)
                 THEN RunReturn("False")
                 ELSE /\ run_pc' = "interrupted"
                      /\ result' = "KeyboardInterrupt"
            /\ UNCHANGED <<records, processed_queries>>
  /\ UNCHANGED <<settings, threads, calls_left, timeVars, emoji_list,
                 month_periods, emoji_idx, month_idx, total_queries, text_count,
                 reaction_count, gave_up, args, fs, loaded, qbVars, pivotVars>>

(***************************************************************************)
(* query_builder.py: generate_period_starts, loop by loop, and             *)
(* build_period_queries.  The label of a period of several months is made  *)
(* by _perform_period_aggregation, which the tests call; it is modelled    *)
(* from the specification.                                                 *)
(***************************************************************************)
\* a count that is rounded down
PeriodCount_Floor(total_months, interval_months) == total_months \div interval_months

\* period_count = (total_months + interval_months - 1) // interval_months
PeriodCount(total_months, interval_months) ==
  (total_months + interval_months - 1) \div interval_months

\* period_end = (period_start + relativedelta(months=interval_months))
\*              - relativedelta(days=1)
period_end(period_start, interval_months) ==
  MinusOneDay(AddMonths(period_start, interval_months))

build_period_queries(emoji, period_start, interval_months) ==
  LET start_str == StrftimeYmd(period_start)
      end_str == StrftimeYmd(period_end(period_start, interval_months))
  IN <<TextQuery(emoji, start_str, end_str),
       ReactionQuery(emoji, start_str, end_str)>>

\* "YYYY-MM" for one month, "YYYY-MM to YYYY-MM" with the first and the
\* last month of the span for more
period_label(period_start, interval_months) ==
  IF interval_months = 1 THEN StrftimeYm(period_start)
  ELSE StrftimeYm(period_start) \o <<" ", "t", "o", " ">>
         \o StrftimeYm(AddMonths(period_start, interval_months - 1))

\* period_starts = [], current_date = datetime.now().date()
QbStart ==
  /\ qb_pc = "start"
  /\ period_starts' = <<>>
  /\ qb_i' = 0
  /\ qb_pc' = "loop"
  /\ UNCHANGED <<clientVars, aggVars, runVars, pivotVars, qb_in, built>>

\* for i in range(period_count), with its break
QbLoop ==
  /\ qb_pc = "loop"
  /\ LET months_back == qb_i * qb_in.interval_months
     IN IF qb_i < PeriodCount(qb_in.total_months, qb_in.interval_months)
             /\ ~(months_back >= qb_in.total_months)
          THEN /\ period_starts' =
                    Append(period_starts,
                           FirstOfMonth(AddMonths(qb_in.today, -months_back)))
               /\ qb_i' = qb_i + 1
               /\ qb_pc' = "loop"
          ELSE /\ qb_pc' = "build"
               /\ UNCHANGED <<period_starts, qb_i>>
  /\ UNCHANGED <<clientVars, aggVars, runVars, pivotVars, qb_in, built>>

\* the caller builds the queries and the label of the next period start
QbBuild ==
  /\ qb_pc = "build"
  /\ IF Len(built) < Len(period_starts)
       THEN LET period_start == period_starts[Len(built) + 1]
                k == qb_in.interval_months
            IN built' = Append(built,
                 [start |-> period_start,
                  end |-> period_end(period_start, k),
                  queries |-> build_period_queries(qb_in.emoji, period_start, k),
                  monthly |-> build_monthly_queries(qb_in.emoji, period_start),
                  label |-> period_label(period_start, k)])
            /\ qb_pc' = "build"
       ELSE /\ qb_pc' = "done"
            /\ UNCHANGED built
  /\ UNCHANGED <<clientVars, aggVars, runVars, pivotVars, qb_in, period_starts,
                 qb_i>>

(***************************************************************************)
(* csv_writer.py: _convert_to_pivot, record by record.  A count is a       *)
(* Python value: an int, a str, a float or None.  A dict is the sequence   *)
(* of its items in insertion order.                                        *)
(***************************************************************************)
PyInt(n) == [t |-> "int", v |-> n]
PyStr(str) == [t |-> "str", v |-> str]
PyFloat(str) == [t |-> "float", v |-> str]
PyNone == [t |-> "None", v |-> "None"]

\* the strings of the model that int() parses, with their values
Numerals == [str \in {"3", "-2"} |-> IF str = "3" THEN 3 ELSE -2]

Value(n) == [kind |-> "value", val |-> n]
Raise(exc) == [kind |-> exc, val |-> 0]

\* an int() that reads a count it cannot convert as 0
int_Lenient(c) ==
  CASE c.t = "int" -> Value(c.v)
    [] c.t = "str" /\ c.v \in DOMAIN Numerals -> Value(Numerals[c.v])
    [] OTHER -> Value(0)

\* int(usage_count): the value, or the exception it raises
int(c) ==
  CASE c.t = "int" -> Value(c.v)
    [] c.t = "str" ->
         IF c.v \in DOMAIN Numerals THEN Value(Numerals[c.v]) ELSE Raise("ValueError")
    [] c.t = "float" ->
         IF c.v = "inf" THEN Raise("OverflowError") ELSE Raise("ValueError")
    [] OTHER -> Raise("TypeError")

HasKey(d, key) == \E i \in 1..Len(d) : d[i].key = key

Get(d, key) == d[CHOOSE i \in 1..Len(d) : d[i].key = key].val

\* a dict that keeps the first value of a key
Put_KeepFirst(d, key, val) ==
  IF HasKey(d, key) THEN d ELSE Append(d, [key |-> key, val |-> val])

\* d[key] = val: the value of an existing key is replaced where it is, a new
\* key goes last
Put(d, key, val) ==
  IF HasKey(d, key)
    THEN [i \in 1..Len(d) |-> IF d[i].key = key THEN [d[i] EXCEPT !.val = val]
                              ELSE d[i]]
    ELSE Append(d, [key |-> key, val |-> val])

\* data[emoji_name], data being a defaultdict(dict)
GetOrEmpty(d, key) == IF HasKey(d, key) THEN Get(d, key) ELSE <<>>

\* except (ValueError, TypeError)
CatchesCountError(r) == r.kind \in {"ValueError", "TypeError"}

\* for record in records: one record
PivotStep ==
  /\ pivot_pc = "loop"
  /\ IF pivot_i < Len(pivot_in)
       THEN LET record == pivot_in[pivot_i + 1]
            IN IF Len(record) # 3
                 THEN /\ pivot_pc' = "loop"
                      /\ pivot_i' = pivot_i + 1
                      /\ UNCHANGED <<data, periods>>
                 ELSE LET emoji == record[1]
                          period == record[2]
                          usage_int == int(record[3])
                      IN IF usage_int.kind = "value"
                           THEN /\ data' = Put(data, emoji,
                                     Put(GetOrEmpty(data, emoji), period,
                                         usage_int.val))
                                /\ periods' = periods \cup {period}
                                /\ pivot_pc' = "loop"
                                /\ pivot_i' = pivot_i + 1
                           ELSE /\ pivot_pc' =
                                     IF CatchesCountError(usage_int) THEN "loop"
                                     ELSE "raised"
                                /\ pivot_i' = pivot_i + 1
                                /\ UNCHANGED <<data, periods>>
       ELSE /\ pivot_pc' = "done"
            /\ UNCHANGED <<pivot_i, data, periods>>
  /\ UNCHANGED <<clientVars, aggVars, runVars, qbVars, pivot_in, out, build_no, first>>

(***************************************************************************)
(* csv_writer.py: _write_pivot_csv and _write_pivot_summary.  The report   *)
(* is the sequence of the rows written; a row is a sequence of cells.  A   *)
(* cell is a Python value: a str (a symbol or a literal), a period label,  *)
(* an int, or a number formatted with one decimal.                         *)
(***************************************************************************)
PyLabel(l) == [t |-> "label", v |-> l]
Fixed1(tenths) == [t |-> "fixed1", v |-> tenths]

\* the code points of the characters of a period label, as Python orders them
CharRank == [c \in {" ", "-", "0", "1", "2", "3", "4", "5", "6", "7", "8", "9", "o", "t"} |->
               CASE c = " " -> 32 [] c = "-" -> 45 [] c = "0" -> 48 [] c = "1" -> 49
                 [] c = "2" -> 50 [] c = "3" -> 51 [] c = "4" -> 52 [] c = "5" -> 53
                 [] c = "6" -> 54 [] c = "7" -> 55 [] c = "8" -> 56 [] c = "9" -> 57
                 [] c = "o" -> 111 [] OTHER -> 116]

\* s < t for two str
RECURSIVE StrLess(_, _)
StrLess(s, t) ==
  IF t = <<>> THEN FALSE
  ELSE IF s = <<>> THEN TRUE
  ELSE IF Head(s) # Head(t) THEN CharRank[Head(s)] < CharRank[Head(t)]
  ELSE StrLess(Tail(s), Tail(t))

\* a set of labels in the opposite of the ascending order
RECURSIVE sorted_Descending(_)
sorted_Descending(labels) ==
  IF labels = {} THEN <<>>
  ELSE LET greatest == CHOOSE x \in labels : \A y \in labels : y = x \/ StrLess(y, x)
       IN <<greatest>> \o sorted_Descending(labels \ {greatest})

\* sorted(pivot_data["periods"])
RECURSIVE sorted(_)
sorted(labels) ==
  IF labels = {} THEN <<>>
  ELSE LET least == CHOOSE x \in labels : \A y \in labels : y = x \/ StrLess(x, y)
       IN <<least>> \o sorted(labels \ {least})

RECURSIVE InsertItem(_, _)
InsertItem(item, items) ==
  IF items = <<>> THEN <<item>>
  ELSE IF NameRank[item.key] < NameRank[Head(items).key] THEN <<item>> \o items
  ELSE <<Head(items)>> \o InsertItem(item, Tail(items))

\* sorted(pivot_data["data"].items()): the keys are distinct, so the items
\* are ordered by key
RECURSIVE sorted_items(_)
sorted_items(d) ==
  IF d = <<>> THEN <<>> ELSE InsertItem(Head(d), sorted_items(Tail(d)))

\* emoji_data.get(period, 1)
get_DefaultOne(d, key) == IF HasKey(d, key) THEN Get(d, key) ELSE 1

\* emoji_data.get(period, 0)
get(d, key) == IF HasKey(d, key) THEN Get(d, key) ELSE 0

\* sum(...) of a list of int
RECURSIVE sum(_)
sum(values) == IF values = <<>> THEN 0 ELSE Head(values) + sum(Tail(values))

\* f"{total / n:.1f}" if n else 0, in tenths: the quotient rounded to one
\* decimal, a tie going to the even digit
average(total, n) ==
  IF n = 0 THEN 0
  ELSE LET q == (10 * total) \div n
           r == (10 * total) % n
       IN IF 2 * r < n THEN q
          ELSE IF 2 * r > n THEN q + 1
          ELSE IF q % 2 = 0 THEN q ELSE q + 1

\* the last of the keys with the greatest value
max_key_Last(d) ==
  d[CHOOSE i \in 1..Len(d) :
      /\ \A j \in 1..Len(d) : d[j].val <= d[i].val
      /\ \A j \in (i + 1)..Len(d) : d[j].val < d[i].val].key

\* max(emoji_data.keys(), key=lambda p: emoji_data[p]): the first of the
\* keys, in the order of the dict, with the greatest value
max_key(d) ==
  d[CHOOSE i \in 1..Len(d) :
      /\ \A j \in 1..Len(d) : d[j].val <= d[i].val
      /\ \A j \in 1..(i - 1) : d[j].val < d[i].val].key

\* open(output_path, "a"): the file keeps what it held
open_Append(file) == file

\* open(output_path, "w"): the file is truncated
open(file) == <<>>

\* a test of pivot_data["periods"] that never finds it empty
NoPeriods_Never(labels) == FALSE

\* not pivot_data["periods"]
NoPeriods(labels) == labels = {}

EmptyHeader == <<PyStr("emoji"), PyStr("total")>>

Labels(labels) == [i \in 1..Len(labels) |-> PyLabel(labels[i])]
Ints(values) == [i \in 1..Len(values) |-> PyInt(values[i])]

\* header = ["emoji"] + periods + ["total", "average", "max_period"]
Header(labels) ==
  <<PyStr("emoji")>> \o Labels(labels)
    \o <<PyStr("total"), PyStr("average"), PyStr("max_period")>>

\* the row of one item of pivot_data["data"]
DataRow(emoji, emoji_data, labels) ==
  LET period_values == [i \in 1..Len(labels) |-> get(emoji_data, labels[i])]
      total == sum(period_values)
      max_period == IF emoji_data # <<>> THEN PyLabel(max_key(emoji_data))
                    ELSE PyStr("")
  IN <<PyStr(emoji)>> \o Ints(period_values)
       \o <<PyInt(total), Fixed1(average(total, Len(period_values))), max_period>>

\* sum(emoji_data.get(period, 0) for emoji_data in pivot_data["data"].values())
period_total(d, period) == sum([e \in 1..Len(d) |-> get(d[e].val, period)])

\* the rows of _write_pivot_summary: an empty row and the TOTAL row
SummaryRows(d, labels) ==
  LET totals == [i \in 1..Len(labels) |-> period_total(d, labels[i])]
      grand_total == sum(totals)
  IN << <<>>,
        <<PyStr("TOTAL")>> \o Ints(totals)
          \o <<PyInt(grand_total), Fixed1(average(grand_total, Len(labels))),
               PyStr("")>> >>

\* with open(output_path, "w"), then the header
WriteHeader ==
  /\ pivot_pc = "done"
  /\ IF NoPeriods(periods)
       THEN /\ out' = Append(open(out), EmptyHeader)
            /\ pivot_pc' = "written"
       ELSE /\ out' = Append(open(out), Header(sorted(periods)))
            /\ pivot_pc' = "rows"
  /\ UNCHANGED <<clientVars, aggVars, runVars, qbVars, pivot_in, pivot_i, data,
                 periods, build_no, first>>

\* rows written since the header: Len(out) - 1
RowsWritten == Len(out) - 1

\* for emoji_name, emoji_data in sorted(...): one item
WriteDataRow ==
  /\ pivot_pc = "rows"
  /\ RowsWritten < Len(data)
  /\ LET item == sorted_items(data)[RowsWritten + 1]
     IN out' = Append(out, DataRow(item.key, item.val, sorted(periods)))
  /\ UNCHANGED <<clientVars, aggVars, runVars, qbVars, pivot_pc, pivot_in, pivot_i,
                 data, periods, build_no, first>>

\* _write_pivot_summary, after the last item
WriteSummary ==
  /\ pivot_pc = "rows"
  /\ RowsWritten = Len(data)
  /\ out' = out \o SummaryRows(data, sorted(periods))
  /\ pivot_pc' = "written"
  /\ UNCHANGED <<clientVars, aggVars, runVars, qbVars, pivot_in, pivot_i, data,
                 periods, build_no, first>>

NoBuild == [pc |-> "none", out |-> <<>>]

\* _write_pivot_csv is called again with the same records, after it returned
\* or raised: its locals are new, the file is the one the first call left
WriteAgain ==
  /\ pivot_pc \in {"written", "raised"}
  /\ build_no = 1
  /\ build_no' = 2
  /\ first' = [pc |-> pivot_pc, out |-> out]
  /\ pivot_pc' = "loop"
  /\ pivot_i' = 0
  /\ data' = <<>>
  /\ periods' = {}
  /\ UNCHANGED <<clientVars, aggVars, runVars, qbVars, pivot_in, out>>

(***************************************************************************)
(* The parts of the program that a specification leaves out are at rest.   *)
(***************************************************************************)
NoArgs == [path |-> "none"]
NoFs == [report |-> "none", backup |-> FALSE]

RunNotRunning ==
  /\ run_pc = "none"
  /\ args = NoArgs
  /\ fs = NoFs
  /\ loaded = NotLoaded
  /\ result = "none"
  /\ run_log = <<>>

QbNotRunning ==
  /\ qb_pc = "none"
  /\ qb_in = <<>>
  /\ period_starts = <<>>
  /\ qb_i = 0
  /\ built = <<>>

PivotNotRunning ==
  /\ pivot_pc = "none"
  /\ pivot_in = <<>>
  /\ pivot_i = 0
  /\ data = <<>>
  /\ periods = {}
  /\ out = <<>>
  /\ build_no = 0
  /\ first = NoBuild

(***************************************************************************)
(* Spec: _perform_aggregation on a symbol list and a period list.          *)
(***************************************************************************)
P1 == Date(2024, 1, 1)
P2 == Date(2023, 12, 1)

AggInputs ==
  {<<<<"a", "b">>, <<P1, P2>>>>,
   <<<<"a", "a">>, <<P1>>>>,
   <<<<"x960">>, <<P2>>>>,
   <<<<"a">>, <<>>>>,
   <<<<>>, <<P1>>>>}

\* the aggregation is run with max_retry = 2, the concurrent callers with 1
TwoRetries == [DefaultSettings EXCEPT !.max_retry = 2]
OneRetry == [DefaultSettings EXCEPT !.max_retry = 1]

Init ==
  /\ InitThreads({Main}, 0, TwoRetries)
  /\ \E in \in AggInputs : emoji_list = in[1] /\ month_periods = in[2]
  /\ agg_pc = "start"
  /\ emoji_idx = 0
  /\ month_idx = 0
  /\ records = <<>>
  /\ total_queries = 0
  /\ processed_queries = 0
  /\ text_count = NoCount
  /\ reaction_count = NoCount
  /\ gave_up = {}
  /\ RunNotRunning
  /\ QbNotRunning
  /\ PivotNotRunning

Next ==
  \/ AggStart
  \/ AggEmojiLoop
  \/ AggMonthLoop
  \/ AggTextReturn
  \/ AggReactionReturn
  \/ \E t \in threads : LoopHead(t)
  \/ \E t \in threads : RespectRead(t)
  \/ \E t \in threads : RespectSleep(t)
  \/ \E t \in threads : RespectWrite(t)
  \/ \E t \in threads : Dispatch(t)
  \/ \E t \in threads : RespondOk(t)
  \/ \E t \in threads : RespondRateLimited(t)
  \/ \E t \in threads : BackoffWake(t)
  \/ \E t \in threads : RespondError(t)
  \/ Tick

Spec == Init /\ [][Next]_vars

AggNotRunning ==
  /\ agg_pc = "none"
  /\ emoji_list = <<>>
  /\ month_periods = <<>>
  /\ emoji_idx = 0
  /\ month_idx = 0
  /\ records = <<>>
  /\ total_queries = 0
  /\ processed_queries = 0
  /\ text_count = NoCount
  /\ reaction_count = NoCount
  /\ gave_up = {}

(***************************************************************************)
(* SpecClient: one thread of control calls the client.                     *)
(***************************************************************************)
InitClient ==
  /\ InitThreads({"main"}, MaxCalls, DefaultSettings)
  /\ AggNotRunning
  /\ RunNotRunning
  /\ QbNotRunning
  /\ PivotNotRunning

NextClient ==
  \/ \E t \in threads : LoopHead(t)
  \/ \E t \in threads : RespectRead(t)
  \/ \E t \in threads : RespectSleep(t)
  \/ \E t \in threads : RespectWrite(t)
  \/ \E t \in threads : Dispatch(t)
  \/ \E t \in threads : RespondOk(t)
  \/ \E t \in threads : RespondRateLimited(t)
  \/ \E t \in threads : BackoffWake(t)
  \/ \E t \in threads : RespondError(t)
  \/ \E t \in threads : Call(t)
  \/ \E t \in threads : Return(t)
  \/ Tick

SpecClient == InitClient /\ [][NextClient]_vars

(***************************************************************************)
(* SpecConc: two concurrent execution paths call the client.               *)
(***************************************************************************)
InitConc ==
  /\ InitThreads({"t1", "t2"}, 1, OneRetry)
  /\ AggNotRunning
  /\ RunNotRunning
  /\ QbNotRunning
  /\ PivotNotRunning

SpecConc == InitConc /\ [][NextClient]_vars

(***************************************************************************)
(* SpecRun: one run of aggregate_emoji_usage.  The scheduler runs the one  *)
(* thread, time.sleep returns and the Slack API answers every request:     *)
(* a step that can be taken is taken.                                      *)
(***************************************************************************)
Today == Date(2024, 1, 15)

RunArgs(path, std, names, custom, max, months) ==
  [path |-> path, include_standard |-> std, standard |-> names,
   include_custom |-> custom, max_emojis |-> max, months |-> months,
   today |-> Today]

RunInputs ==
  {<<RunArgs("ok", TRUE, <<"a">>, TRUE, 0, 1), "old">>,
   <<RunArgs("ok", TRUE, <<"a", "b">>, FALSE, 1, 2), "absent">>,
   <<RunArgs("ok", TRUE, <<>>, TRUE, 0, 1), "old">>,
   <<RunArgs("ok", FALSE, <<"a">>, FALSE, 0, 1), "absent">>,
   <<RunArgs("ok", TRUE, <<"a">>, FALSE, 0, -1), "old">>,
   <<RunArgs("", TRUE, <<"a">>, TRUE, 0, 1), "old">>,
   <<RunArgs("nodir", TRUE, <<"a">>, TRUE, 0, 1), "absent">>,
   <<RunArgs("readonly", TRUE, <<"a">>, TRUE, 0, 1), "old">>}

InitRun ==
  /\ InitThreads({Main}, 0, TwoRetries)
  /\ AggNotRunning
  /\ QbNotRunning
  /\ PivotNotRunning
  /\ run_pc = "start"
  /\ \E in \in RunInputs :
       /\ args = in[1]
       /\ fs = [report |-> in[2], backup |-> FALSE]
  /\ loaded = NotLoaded
  /\ result = "none"
  /\ run_log = <<>>

NextRun ==
  \/ RunStart
  \/ RunWorkspaceReturn
  \/ RunCustomReturn
  \/ RunAggReturn
  \/ AggStart
  \/ AggEmojiLoop
  \/ AggMonthLoop
  \/ AggTextReturn
  \/ AggReactionReturn
  \/ \E t \in threads : LoopHead(t)
  \/ \E t \in threads : RespectRead(t)
  \/ \E t \in threads : RespectSleep(t)
  \/ \E t \in threads : RespectWrite(t)
  \/ \E t \in threads : Dispatch(t)
  \/ \E t \in threads : RespondOk(t)
  \/ \E t \in threads : RespondRateLimited(t)
  \/ \E t \in threads : BackoffWake(t)
  \/ \E t \in threads : RespondError(t)
  \/ Tick

SpecRun == InitRun /\ [][NextRun]_vars /\ WF_vars(NextRun)

(***************************************************************************)
(* SpecCancel: one run of aggregate_emoji_usage that the user may          *)
(* interrupt at any point.                                                 *)
(***************************************************************************)
NextCancel ==
  \/ NextRun
  \/ Interrupt

SpecCancel == InitRun /\ [][NextCancel]_vars

(***************************************************************************)
(* SpecPeriods: generate_period_starts and the query builders on every     *)
(* total_months and interval_months of the bounds, on days that make the   *)
(* periods cross a year, a leap February and the end of a short month.     *)
(***************************************************************************)
QbDates ==
  {Date(2023, 7, 15), Date(2023, 1, 10), Date(2024, 3, 31), Date(2023, 3, 30),
   Date(2024, 1, 31)}

InitPeriods ==
  /\ InitThreads({Main}, 0, DefaultSettings)
  /\ AggNotRunning
  /\ RunNotRunning
  /\ PivotNotRunning
  /\ qb_pc = "start"
  /\ \E today \in QbDates, total \in 1..MaxTotalMonths,
        interval \in 1..MaxIntervalMonths, emoji \in {"a", "c1"} :
       qb_in = [today |-> today, total_months |-> total,
                interval_months |-> interval, emoji |-> emoji]
  /\ period_starts = <<>>
  /\ qb_i = 0
  /\ built = <<>>

NextPeriods ==
  \/ QbStart
  \/ QbLoop
  \/ QbBuild

SpecPeriods == InitPeriods /\ [][NextPeriods]_vars

(***************************************************************************)
(* SpecPivot: _convert_to_pivot on every list of at most MaxRows records   *)
(* taken from PivotRows.                                                   *)
(***************************************************************************)
Jan == StrftimeYm(Date(2023, 1, 1))
Feb == StrftimeYm(Date(2023, 2, 1))

PivotRows ==
  {<<"a", Jan, PyInt(1)>>, <<"a", Jan, PyInt(2)>>, <<"a", Feb, PyStr("3")>>,
   <<"b", Jan, PyInt(0)>>, <<"a", Jan, PyInt(-1)>>, <<"b", Jan, PyStr("-2")>>,
   <<"a", Jan, PyStr("invalid")>>, <<"b", Feb, PyNone>>,
   <<"a", Feb, PyFloat("inf")>>, <<"incomplete">>, <<"a", Feb, PyInt(2)>>}

RECURSIVE Lists(_, _)
Lists(S, n) ==
  IF n = 0 THEN {<<>>}
  ELSE LET shorter == Lists(S, n - 1)
       IN shorter \cup {Append(l, x) : l \in {m \in shorter : Len(m) = n - 1}, x \in S}

InitPivot ==
  /\ InitThreads({Main}, 0, DefaultSettings)
  /\ since_last_call = 0
  /\ AggNotRunning
  /\ RunNotRunning
  /\ QbNotRunning
  /\ pivot_pc = "loop"
  /\ pivot_in \in Lists(PivotRows, MaxRows)
  /\ pivot_i = 0
  /\ data = <<>>
  /\ periods = {}
  /\ out = <<>>
  /\ build_no = 1
  /\ first = NoBuild

NextPivot ==
  \/ PivotStep
  \/ WriteHeader
  \/ WriteDataRow
  \/ WriteSummary
  \/ WriteAgain

SpecPivot == InitPivot /\ [][NextPivot]_vars

(***************************************************************************)
(* What a call did, read off its event log.                                *)
(***************************************************************************)
IsDispatch(e) == e.ev = "dispatch"
IsReject(e) == e.ev = "reject"
IsSleep(e) == e.ev = "sleep"
IsNotPace(e) == e.ev # "pace"

Args(s) == [i \in 1..Len(s) |-> s[i].arg]

Dispatches(t) == Len(SelectSeq(log[t], IsDispatch))
Rejects(t) == Args(SelectSeq(log[t], IsReject))
Backoffs(t) == Args(SelectSeq(log[t], IsSleep))

\* dispatch, rejection with delay d, sleep of d + 1, for each d of ds in turn
RECURSIVE RetryRounds(_)
RetryRounds(ds) ==
  IF ds = <<>> THEN <<>>
  ELSE <<Event("dispatch", 0), Event("reject", Head(ds)), Event("sleep", Head(ds) + 1)>>
         \o RetryRounds(Tail(ds))

(***************************************************************************)
(* C1. Pacing, one thread of control: whatever mix of the three operations *)
(* is called, retries included, two consecutive dispatches to the Slack    *)
(* API are at least min_interval_sec apart.                                *)
(***************************************************************************)
C1_PacingInvariant == last_gap # NoTs => last_gap >= settings.min_interval_sec

\* a retry dispatched exactly min_interval_sec after the rejected dispatch
C1_Witness ==
  /\ pc["main"] = "await"
  /\ attempt["main"] = 2
  /\ last_gap = settings.min_interval_sec

(***************************************************************************)
(* C2. Retry on rate limit: when search_messages_safe is rejected k times  *)
(* (k < max_retry) with Retry-After d_1..d_k and then succeeds with total  *)
(* c, it returns c after exactly k + 1 dispatches and k backoff sleeps,    *)
(* the i-th of d_i + 1 seconds and placed between the i-th rejected        *)
(* dispatch and the next one.                                              *)
(***************************************************************************)
C2_RetryThenSuccess ==
  \A t \in threads :
    (pc[t] = "done" /\ op[t] = "search" /\ resp[t].kind = "ok") =>
      /\ Len(Rejects(t)) < settings.max_retry
      /\ ret[t] = [kind |-> "value", val |-> resp[t].val]
      /\ Dispatches(t) = Len(Rejects(t)) + 1
      /\ Len(Backoffs(t)) = Len(Rejects(t))
      /\ \A i \in 1..Len(Rejects(t)) : Backoffs(t)[i] = Rejects(t)[i] + 1
      /\ SelectSeq(log[t], IsNotPace)
           = RetryRounds(Rejects(t)) \o <<Event("dispatch", 0)>>

\* rejected with Retry-After 1, then 0, then answered with a total of 1
C2_Witness ==
  /\ pc["main"] = "done"
  /\ op["main"] = "search"
  /\ resp["main"] = [kind |-> "ok", val |-> 1]
  /\ Rejects("main") = <<1, 0>>
  /\ Backoffs("main") = <<2, 1>>

(***************************************************************************)
(* C3. Retry exhaustion: when every attempt is rejected with 429,          *)
(* search_messages_safe returns 0, get_custom_emojis an empty list and     *)
(* get_workspace_info None; none raises, and each has made exactly         *)
(* max_retry dispatches and max_retry backoff sleeps.  No call ever makes  *)
(* more than max_retry dispatches.                                         *)
(***************************************************************************)
C3_RetryExhaustion ==
  \A t \in threads :
    /\ Dispatches(t) <= settings.max_retry
    /\ (pc[t] = "done" /\ resp[t].kind = "429") =>
         /\ ret[t].kind = "value"
         /\ op[t] = "search" => ret[t].val = 0
         /\ op[t] = "emojis" => ret[t].val = <<>>
         /\ op[t] = "workspace" => ret[t].val = "None"
         /\ Dispatches(t) = settings.max_retry
         /\ Len(Rejects(t)) = settings.max_retry
         /\ Len(Backoffs(t)) = settings.max_retry

\* a search gave up after max_retry rejections
C3_Witness ==
  /\ pc["main"] = "done"
  /\ op["main"] = "search"
  /\ resp["main"].kind = "429"
  /\ Dispatches("main") = settings.max_retry

(***************************************************************************)
(* C4. An error that is not a rate limit is not retried: when a dispatch   *)
(* of search_messages_safe or get_custom_emojis fails with a SlackApiError *)
(* whose status is not 429, the operation raises on that attempt: the      *)
(* failed dispatch is its last, and no backoff sleep follows it.           *)
(***************************************************************************)
C4_ErrorNotRetried ==
  \A t \in threads :
    (/\ pc[t] = "done"
     /\ op[t] \in {"search", "emojis"}
     /\ resp[t].kind \in {"api_error", "not_ok"}) =>
      /\ ret[t].kind = "raised"
      /\ Dispatches(t) = attempt[t]
      /\ Len(Backoffs(t)) = attempt[t] - 1
      /\ log[t][Len(log[t])].ev = "dispatch"

\* the first attempt fails, two attempts remain, and the error is raised
C4_Witness ==
  /\ pc["main"] = "done"
  /\ op["main"] = "search"
  /\ resp["main"].kind = "api_error"
  /\ attempt["main"] = 1
  /\ ret["main"].kind = "raised"

(***************************************************************************)
(* C8. Global throttle under concurrency: with two or more threads in the  *)
(* client, no interleaving of the read, sleep and write of                 *)
(* _respect_interval lets two dispatches happen less than min_interval_sec *)
(* apart.                                                                  *)
(***************************************************************************)
C8_ConcurrentPacing ==
  Cardinality(threads) >= 2 => (last_gap = NoTs \/ last_gap >= settings.min_interval_sec)

(***************************************************************************)
(* The pairs of _perform_aggregation.                                      *)
(***************************************************************************)
\* the number of the pair the loops are at, counted from 1 (0: none yet)
PairOrdinal ==
  IF emoji_idx = 0 THEN 0 ELSE (emoji_idx - 1) * Len(month_periods) + month_idx

\* the loops are between two pairs: the last row is the row of the last pair,
\* and text_count and reaction_count are what that pair left behind
PairDone == agg_pc \in {"month_loop", "emoji_loop", "done"} /\ records # <<>>

LastRow == records[Len(records)]

(***************************************************************************)
(* C5. Row order and count: the rows collected so far are, in order, the   *)
(* rows of the first pairs in symbol-major, period-minor order: row k      *)
(* (from 1) is for symbol S[(k-1) div |P| + 1] and the label of period     *)
(* P[(k-1) mod |P| + 1], whatever the queries answered; when the loop is   *)
(* done there are exactly |S| x |P| rows.  A symbol that is passed twice   *)
(* has its rows twice.                                                     *)
(***************************************************************************)
C5_RowOrderAndCount ==
  /\ \A k \in 1..Len(records) :
       /\ records[k].emoji = emoji_list[((k - 1) \div Len(month_periods)) + 1]
       /\ records[k].month =
            StrftimeYm(month_periods[((k - 1) % Len(month_periods)) + 1])
  /\ agg_pc = "done" => Len(records) = Len(emoji_list) * Len(month_periods)

\* two symbols and two periods: four rows, the second for the first symbol
\* and the second period
C5_Witness ==
  /\ agg_pc = "done"
  /\ Len(emoji_list) = 2
  /\ Len(month_periods) = 2
  /\ Len(records) = 4
  /\ records[2].emoji = "a"
  /\ records[2].month = <<"2", "0", "2", "3", "-", "1", "2">>
  /\ records[3].emoji = "b"

(***************************************************************************)
(* C6. Degradation: the aggregation loop never raises; a pair one of whose *)
(* queries raised (its count was never assigned) has a row with count 0,   *)
(* also when the text query had already returned a count; every pair that  *)
(* was processed has exactly one row, and all pairs are processed.         *)
(***************************************************************************)
C6_Degradation ==
  /\ agg_pc # "raised"
  /\ (PairDone /\ (text_count = NoCount \/ reaction_count = NoCount)) =>
       LastRow.count = 0
  /\ Len(records) =
       IF agg_pc \in {"text", "reaction"} THEN PairOrdinal - 1 ELSE PairOrdinal
  /\ agg_pc = "done" => PairOrdinal = Len(emoji_list) * Len(month_periods)

\* the text query returned 1, the reaction query raised: the first pair has
\* a row with count 0 and the loop goes on to the three pairs left
C6_Witness ==
  /\ agg_pc = "month_loop"
  /\ text_count = 1
  /\ reaction_count = NoCount
  /\ Len(records) = 1
  /\ LastRow.count = 0
  /\ Len(emoji_list) * Len(month_periods) = 4

(***************************************************************************)
(* C7. Pair count and order: when both queries of a pair returned counts t *)
(* and r its row carries t + r, which is not negative.  A query that is    *)
(* dispatched is a query of the current pair; the reaction query is        *)
(* dispatched only after the text query returned, and both only after      *)
(* every earlier pair has its row and before the pair itself has one.      *)
(***************************************************************************)
C7_PairCount ==
  /\ (PairDone /\ text_count # NoCount /\ reaction_count # NoCount) =>
       /\ LastRow.count = text_count + reaction_count
       /\ LastRow.count >= 0
  /\ (agg_pc # "none" /\ Dispatches(Main) > 0) =>
       /\ Len(records) = PairOrdinal - 1
       /\ \/ /\ agg_pc = "text"
             /\ query[Main] = build_monthly_queries(emoji_name, month_start)[1]
             /\ text_count = NoCount
             /\ reaction_count = NoCount
          \/ /\ agg_pc = "reaction"
             /\ query[Main] = build_monthly_queries(emoji_name, month_start)[2]
             /\ text_count # NoCount
             /\ reaction_count = NoCount

\* the text query returned 1 and the reaction query 1: the row carries 2
C7_Witness ==
  /\ PairDone
  /\ text_count = 1
  /\ reaction_count = 1
  /\ LastRow.count = 2

(***************************************************************************)
(* C9 as stated. When one query of a pair gives up after max_retry         *)
(* rejections, the row of the pair has count 0.                            *)
(***************************************************************************)
C9_ExhaustionZeroesPair == (PairDone /\ gave_up # {}) => LastRow.count = 0

(***************************************************************************)
(* C9 as amended. A query that gives up after max_retry rejections does    *)
(* not raise: it counts as 0 in its pair, and the row of the pair carries  *)
(* the count the other query returned (0 if the other one raised).         *)
(***************************************************************************)
C9_ExhaustionCountsZero ==
  /\ (agg_pc \in {"text", "reaction"} /\ pc[Main] = "done"
        /\ resp[Main].kind = "429") =>
       ret[Main] = [kind |-> "value", val |-> 0]
  /\ (PairDone /\ "text" \in gave_up) =>
       /\ text_count = 0
       /\ LastRow.count = IF reaction_count = NoCount THEN 0 ELSE reaction_count
  /\ (PairDone /\ "reaction" \in gave_up) =>
       /\ reaction_count = 0
       /\ LastRow.count = text_count

\* the text query gave up, the reaction query returned 1: the row carries 1
C9_Witness ==
  /\ PairDone
  /\ gave_up = {"text"}
  /\ reaction_count = 1
  /\ LastRow.count = 1

(***************************************************************************)
(* C10. Query validity is checked before dispatch: a query that is sent to *)
(* the Slack API passes validate_query.                                    *)
(***************************************************************************)
C10_ValidatedBeforeDispatch ==
  \A t \in threads :
    (op[t] = "search" /\ query[t] # NoQuery /\ Dispatches(t) > 0) =>
      validate_query(query[t])

(***************************************************************************)
(* C11. The run always terminates: whatever the Slack API answers, no      *)
(* client operation makes more than max_retry attempts, and                *)
(* aggregate_emoji_usage eventually returns: True, with the report written *)
(* from one row for every pair of symbol and period, or False.             *)
(***************************************************************************)
C11_RunTerminates ==
  /\ [](\A t \in threads :
          /\ Dispatches(t) <= settings.max_retry
          /\ attempt[t] <= settings.max_retry + 1)
  /\ <>(/\ run_pc = "returned"
        /\ result \in {"True", "False"}
        /\ result = "True" =>
             /\ fs.report = "new"
             /\ records # <<>>
             /\ Len(records) = Len(emoji_list) * Len(month_periods))

\* a run returned True and its report is written
C11_Witness ==
  /\ run_pc = "returned"
  /\ result = "True"
  /\ fs.report = "new"
  /\ Len(records) = 2

\* the output path fails validation
InvalidPath == args.path \in {"", "nodir", "readonly"}

\* the run has returned and load_emojis had returned an empty list
AbortedForEmptyCatalog == run_pc = "returned" /\ loaded = Loaded(<<>>)

(***************************************************************************)
(* C12. A configuration error is fatal before any API call: with an output *)
(* path that fails validation the run makes no dispatch to the Slack API,  *)
(* creates no backup, loads no catalog, writes no report, and returns      *)
(* False.                                                                  *)
(***************************************************************************)
C12_ConfigErrorFatal ==
  InvalidPath =>
    /\ run_pc \in {"start", "returned"}
    /\ run_pc = "returned" => result = "False"
    /\ dispatched_ops = {}
    /\ ~fs.backup
    /\ fs.report \in {"absent", "old"}
    /\ loaded = NotLoaded
    /\ agg_pc = "none"

\* the directory of the output path is read-only: the run returned False and
\* the old report is untouched
C12_Witness ==
  /\ args.path = "readonly"
  /\ run_pc = "returned"
  /\ result = "False"
  /\ fs = [report |-> "old", backup |-> FALSE]

(***************************************************************************)
(* C13. An empty catalog aborts the run with no output: when load_emojis   *)
(* returned an empty list the run returns False, the aggregation loop is   *)
(* never entered, no search query is dispatched and the report at the      *)
(* output path is neither created nor overwritten.                         *)
(***************************************************************************)
C13_EmptyCatalogAborts ==
  loaded = Loaded(<<>>) =>
    /\ run_pc = "returned"
    /\ result = "False"
    /\ agg_pc = "none"
    /\ "search" \notin dispatched_ops
    /\ fs.report \in {"absent", "old"}

\* the standard names are missing and the workspace has no custom names: the
\* run returned False and left the old report in place
C13_Witness ==
  /\ AbortedForEmptyCatalog
  /\ args.include_custom
  /\ result = "False"
  /\ fs.report = "old"

(***************************************************************************)
(* C14 as stated. At the moment the run aborts for an empty catalog, no    *)
(* call has been dispatched to the Slack API.                              *)
(***************************************************************************)
C14_NoTrafficBeforeCatalogError == AbortedForEmptyCatalog => dispatched_ops = {}

(***************************************************************************)
(* C14 as amended. At the moment the run aborts for an empty catalog, no   *)
(* search query has been dispatched: the only calls dispatched so far are  *)
(* the workspace-info call and, exactly when custom symbols are included,  *)
(* the listing call.                                                       *)
(***************************************************************************)
C14_NoSearchBeforeCatalogError ==
  AbortedForEmptyCatalog =>
    /\ "search" \notin dispatched_ops
    /\ "workspace" \in dispatched_ops
    /\ "emojis" \in dispatched_ops <=> args.include_custom

\* both sources are switched off: the run aborted after the workspace-info
\* call alone
C14_Witness ==
  /\ AbortedForEmptyCatalog
  /\ ~args.include_custom
  /\ dispatched_ops = {"workspace"}

(***************************************************************************)
(* The calendar, as the claims about periods read it.                      *)
(***************************************************************************)
\* the least n with n * k >= t
CeilDiv(t, k) == CHOOSE n \in 0..t : n * k >= t /\ (n - 1) * k < t

MonthIndex(dt) == dt.y * 12 + dt.m

DateLess(a, b) ==
  \/ a.y < b.y
  \/ a.y = b.y /\ a.m < b.m
  \/ a.y = b.y /\ a.m = b.m /\ a.d < b.d

LastDay(y, m) ==
  IF m = 2 /\ y % 4 = 0 /\ (y % 100 # 0 \/ y % 400 = 0) THEN 29
  ELSE <<31, 28, 31, 30, 31, 30, 31, 31, 30, 31, 30, 31>>[m]

NextDay(dt) ==
  IF dt.d < LastDay(dt.y, dt.m) THEN [dt EXCEPT !.d = dt.d + 1]
  ELSE IF dt.m < 12 THEN [y |-> dt.y, m |-> dt.m + 1, d |-> 1]
  ELSE [y |-> dt.y + 1, m |-> 1, d |-> 1]

YearMonth(y, m) == Pad4(y) \o <<"-">> \o Pad2(m)

PeriodsGenerated == qb_pc \in {"build", "done"}

(***************************************************************************)
(* C15. Period count: for total_months >= 1 and interval_months >= 1       *)
(* generate_period_starts returns exactly ceil(total_months /              *)
(* interval_months) period starts, each the first day of a month, each     *)
(* strictly earlier than the one before it; the loop runs to its end, the  *)
(* break on months_back >= total_months is never taken.                    *)
(***************************************************************************)
C15_PeriodCount ==
  PeriodsGenerated =>
    /\ Len(period_starts) = CeilDiv(qb_in.total_months, qb_in.interval_months)
    /\ qb_i = CeilDiv(qb_in.total_months, qb_in.interval_months)
    /\ \A j \in 1..Len(period_starts) : period_starts[j].d = 1
    /\ \A j \in 1..(Len(period_starts) - 1) :
         DateLess(period_starts[j + 1], period_starts[j])

\* five months in periods of three, on 2023-07-15: two periods
C15_Witness ==
  /\ qb_pc = "done"
  /\ qb_in.total_months = 5
  /\ qb_in.interval_months = 3
  /\ period_starts = <<Date(2023, 7, 1), Date(2023, 4, 1)>>

(***************************************************************************)
(* C16. The periods of one run do not overlap: consecutive period starts   *)
(* are exactly interval_months calendar months apart, and the end date     *)
(* that build_period_queries uses for the older of two consecutive periods *)
(* is the day before the start of the newer one.                           *)
(***************************************************************************)
C16_NonOverlapping ==
  \A j \in 1..(Len(built) - 1) :
    /\ MonthIndex(built[j].start) - MonthIndex(built[j + 1].start)
         = qb_in.interval_months
    /\ NextDay(built[j + 1].end) = built[j].start
    /\ DateLess(built[j + 1].end, built[j].start)

\* periods of two months on 2024-01-31: the older one ends on 2023-12-31
C16_Witness ==
  /\ qb_pc = "done"
  /\ qb_in.interval_months = 2
  /\ Len(built) >= 2
  /\ built[1].start = Date(2024, 1, 1)
  /\ built[2].start = Date(2023, 11, 1)
  /\ built[2].end = Date(2023, 12, 31)

WellFormedPair(qs, emoji, start, last) ==
  /\ Len(qs[1]) = 7
  /\ [i \in 1..7 |-> qs[1][i].s] =
       <<":", emoji, ":", " after:", StrftimeYmd(start), " before:",
         StrftimeYmd(last)>>
  /\ Len(qs[2]) = 8
  /\ [i \in 1..8 |-> qs[2][i].s] =
       <<"has:", ":", emoji, ":", " after:", StrftimeYmd(start), " before:",
         StrftimeYmd(last)>>

\* the last calendar day of the k-th month counted from the month of start
LastDayOfSpan(start, k) ==
  LET n == MonthIndex(start) - 1 + (k - 1)
      y == n \div 12
      m == (n % 12) + 1
  IN [y |-> y, m |-> m, d |-> LastDay(y, m)]

(***************************************************************************)
(* C18. Query construction: for every symbol and period start the text     *)
(* query is ':name: after:START before:END' and the reaction query         *)
(* 'has::name: after:START before:END', START the period start and END the *)
(* last calendar day of the period, for build_monthly_queries (one month)  *)
(* and for build_period_queries (interval_months months), also when END is *)
(* 28 or 29 February or falls in the next year.                            *)
(***************************************************************************)
C18_QueryConstruction ==
  \A j \in 1..Len(built) :
    LET b == built[j]
    IN /\ WellFormedPair(b.queries, qb_in.emoji, b.start,
                         LastDayOfSpan(b.start, qb_in.interval_months))
       /\ WellFormedPair(b.monthly, qb_in.emoji, b.start,
                         LastDayOfSpan(b.start, 1))

\* a period of three months that starts on 2023-12-01 crosses the year and
\* ends on 29 February 2024; its first month ends on 2023-12-31
C18_Witness ==
  /\ qb_pc = "done"
  /\ qb_in.interval_months = 3
  /\ Len(built) = 2
  /\ built[2].start = Date(2023, 12, 1)
  /\ built[2].queries[2][8].s = <<"2", "0", "2", "4", "-", "0", "2", "-", "2", "9">>
  /\ built[2].monthly[1][7].s = <<"2", "0", "2", "3", "-", "1", "2", "-", "3", "1">>

(***************************************************************************)
(* The pivot, as the claims about it read it.                              *)
(***************************************************************************)
\* the record has three fields and int() returns a value for its count
Accepted(record) == Len(record) = 3 /\ int(record[3]).kind = "value"

SameCell(r1, r2) == r1[1] = r2[1] /\ r1[2] = r2[2]

\* the accepted record i is the last accepted record of its cell
LastOfCell(i) ==
  \A j \in (i + 1)..Len(pivot_in) :
    ~(Accepted(pivot_in[j]) /\ SameCell(pivot_in[i], pivot_in[j]))

NoKeyTwice(d) == \A i, j \in 1..Len(d) : d[i].key = d[j].key => i = j

(***************************************************************************)
(* C19. Pivot duplicates: when several rows that enter the pivot share a   *)
(* symbol and a period label, the cell holds the count of the last of them *)
(* in input order, not a sum or an average, and there is one cell for the  *)
(* pair: a symbol has one entry, and in it a period label has one.         *)
(***************************************************************************)
C19_LastValueWins ==
  pivot_pc = "done" =>
    /\ NoKeyTwice(data)
    /\ \A e \in 1..Len(data) : NoKeyTwice(data[e].val)
    /\ \A i \in 1..Len(pivot_in) :
         (Accepted(pivot_in[i]) /\ LastOfCell(i)) =>
           /\ HasKey(data, pivot_in[i][1])
           /\ HasKey(Get(data, pivot_in[i][1]), pivot_in[i][2])
           /\ Get(Get(data, pivot_in[i][1]), pivot_in[i][2])
                = int(pivot_in[i][3]).val

\* counts 1, then 2, then 0 for another symbol: the cell of the first holds 2
C19_Witness ==
  /\ pivot_pc = "done"
  /\ pivot_in = <<<<"a", Jan, PyInt(1)>>, <<"a", Jan, PyInt(2)>>,
                  <<"b", Jan, PyInt(0)>>>>
  /\ Get(data, "a") = <<[key |-> Jan, val |-> 2]>>
  /\ Len(data) = 2

\* the count is a non-negative integer, or a string that reads as one
NonNegativeCount(c) ==
  \/ c.t = "int" /\ c.v >= 0
  \/ c.t = "str" /\ c.v \in DOMAIN Numerals /\ Numerals[c.v] >= 0

(***************************************************************************)
(* C20. Pivot input filter: a row whose count cannot be interpreted as a   *)
(* non-negative integer, a negative integer included, is skipped: building *)
(* the pivot does not fail, and every cell of the pivot holds the count of *)
(* an input row for that cell whose count is a non-negative integer.       *)
(***************************************************************************)
C20_InvalidCountsSkipped ==
  /\ pivot_pc # "raised"
  /\ \A e \in 1..Len(data) : \A c \in 1..Len(data[e].val) :
       \E i \in 1..Len(pivot_in) :
         /\ Len(pivot_in[i]) = 3
         /\ pivot_in[i][1] = data[e].key
         /\ pivot_in[i][2] = data[e].val[c].key
         /\ NonNegativeCount(pivot_in[i][3])
         /\ int(pivot_in[i][3]).val = data[e].val[c].val

(***************************************************************************)
(* The rows that enter the pivot, read from the input alone.               *)
(***************************************************************************)
\* the count is an integer or a string that reads as one
DenotesInteger(c) ==
  \/ c.t = "int"
  \/ c.t = "str" /\ c.v \in DOMAIN Numerals

CountOf(c) == IF c.t = "int" THEN c.v ELSE Numerals[c.v]

\* a row that is not skipped: three fields, the count an integer
Enters(record) == Len(record) = 3 /\ DenotesInteger(record[3])

EnteringRows == {i \in 1..Len(pivot_in) : Enters(pivot_in[i])}

\* the entering rows of a symbol, and of one of its periods
RowsOf(emoji) == {i \in EnteringRows : pivot_in[i][1] = emoji}
RowsOfCell(emoji, period) == {i \in RowsOf(emoji) : pivot_in[i][2] = period}

Greatest(S) == CHOOSE x \in S : \A y \in S : y <= x
Least(S) == CHOOSE x \in S : \A y \in S : x <= y

\* the count the input gives a cell: that of its last entering row
FinalCount(emoji, period) == CountOf(pivot_in[Greatest(RowsOfCell(emoji, period))][3])

\* _convert_to_pivot has returned
PivotBuilt == pivot_pc \in {"done", "rows", "written"}

Keys(d) == {d[i].key : i \in 1..Len(d)}

InputSymbols == {pivot_in[i][1] : i \in {j \in 1..Len(pivot_in) : Len(pivot_in[j]) = 3}}

EnteringSymbols == {pivot_in[i][1] : i \in EnteringRows}
EnteringLabels == {pivot_in[i][2] : i \in EnteringRows}

\* the report is complete and not the one of an empty pivot
Rendered == pivot_pc = "written" /\ periods # {}

\* the period columns of the header: between the first cell and the last three
HeaderLabels == [i \in 1..(Len(out[1]) - 4) |-> out[1][i + 1].v]

\* the header: emoji, the labels of `labels` ascending, total, average,
\* max_period
HeaderOver(labels) ==
  /\ Len(out[1]) = Cardinality(labels) + 4
  /\ out[1][1] = PyStr("emoji")
  /\ \A i \in 1..Len(HeaderLabels) : out[1][i + 1].t = "label"
  /\ {HeaderLabels[i] : i \in 1..Len(HeaderLabels)} = labels
  /\ \A i \in 1..(Len(HeaderLabels) - 1) : StrLess(HeaderLabels[i], HeaderLabels[i + 1])
  /\ SubSeq(out[1], Len(out[1]) - 2, Len(out[1]))
       = <<PyStr("total"), PyStr("average"), PyStr("max_period")>>

\* after the header: one row per symbol of `symbols`, ascending, of the
\* header's width, then an empty row and the TOTAL row
BodyOver(symbols) ==
  LET n == Cardinality(symbols)
  IN /\ Len(out) = n + 3
     /\ \A r \in 2..(n + 1) :
          /\ Len(out[r]) = Len(out[1])
          /\ out[r][1].t = "str"
          /\ out[r][1].v \in symbols
     /\ \A r \in 2..n : NameRank[out[r][1].v] < NameRank[out[r + 1][1].v]
     /\ out[n + 2] = <<>>
     /\ Len(out[n + 3]) = Len(out[1])
     /\ out[n + 3][1] = PyStr("TOTAL")

(***************************************************************************)
(* C22, as stated. Report layout: with at least one period, the report is  *)
(* the header [emoji, labels ascending, total, average, max_period], one   *)
(* data row per symbol present in any input row, sorted by symbol, then a  *)
(* blank row and a TOTAL row.                                              *)
(***************************************************************************)
C22_RowPerInputSymbol ==
  Rendered => HeaderOver(EnteringLabels) /\ BodyOver(InputSymbols)

(***************************************************************************)
(* C22, amended. Report layout: with at least one period, the report is    *)
(* the header [emoji, labels ascending, total, average, max_period], one   *)
(* data row per symbol that has a row entering the pivot (three fields, an *)
(* integer count), sorted by symbol, then a blank row and a TOTAL row.     *)
(***************************************************************************)
C22_ReportLayout ==
  Rendered => HeaderOver(EnteringLabels) /\ BodyOver(EnteringSymbols)

\* "b" comes first in the input and second in the report, 2023-02 comes
\* first in the input and second in the header
C22_Witness ==
  /\ pivot_pc = "written"
  /\ pivot_in = <<<<"b", Jan, PyInt(0)>>, <<"a", Feb, PyStr("3")>>,
                  <<"a", Jan, PyInt(1)>>>>
  /\ out = << <<PyStr("emoji"), PyLabel(Jan), PyLabel(Feb), PyStr("total"),
                PyStr("average"), PyStr("max_period")>>,
              <<PyStr("a"), PyInt(1), PyInt(3), PyInt(4), Fixed1(20), PyLabel(Feb)>>,
              <<PyStr("b"), PyInt(0), PyInt(0), PyInt(0), Fixed1(0), PyLabel(Jan)>>,
              <<>>,
              <<PyStr("TOTAL"), PyInt(1), PyInt(3), PyInt(4), Fixed1(20), PyStr("")>> >>

\* the period columns, the data rows and the TOTAL row of a rendered report
PeriodColumns == 2..(Len(out[1]) - 3)
TotalColumn == Len(out[1]) - 2
DataRows == 2..(Len(out) - 2)
TotalRow == out[Len(out)]

\* the count the input gives a symbol at a label, a missing one being 0
InputCount(emoji, period) ==
  IF RowsOfCell(emoji, period) # {} THEN FinalCount(emoji, period) ELSE 0

\* the ints of the period columns of a row, and of a column of the data rows
AcrossPeriods(row) == [i \in 1..(Len(out[1]) - 4) |-> row[i + 1].v]
AcrossSymbols(c) == [i \in 1..(Len(out) - 3) |-> out[i + 1][c].v]

(***************************************************************************)
(* C23. Totals: in a rendered report every period cell of a symbol is the  *)
(* symbol's count at that label, 0 when it has none, and its total is the  *)
(* sum of these cells; every period cell of the TOTAL row is the sum of    *)
(* the column over the symbols; the grand total is the sum of the period   *)
(* totals and also the sum of the symbols' totals.                         *)
(***************************************************************************)
C23_Totals ==
  Rendered =>
    /\ \A r \in DataRows :
         /\ \A c \in PeriodColumns :
              out[r][c] = PyInt(InputCount(out[r][1].v, out[1][c].v))
         /\ out[r][TotalColumn] = PyInt(sum(AcrossPeriods(out[r])))
    /\ \A c \in PeriodColumns : TotalRow[c] = PyInt(sum(AcrossSymbols(c)))
    /\ TotalRow[TotalColumn] = PyInt(sum(AcrossPeriods(TotalRow)))
    /\ TotalRow[TotalColumn] = PyInt(sum(AcrossSymbols(TotalColumn)))

\* "b" has no row for 2023-02: its cell there is 0, and the totals add up
C23_Witness ==
  /\ pivot_pc = "written"
  /\ pivot_in = <<<<"a", Jan, PyInt(2)>>, <<"a", Feb, PyStr("3")>>,
                  <<"b", Jan, PyStr("-2")>>>>
  /\ out[2] = <<PyStr("a"), PyInt(2), PyInt(3), PyInt(5), Fixed1(25), PyLabel(Feb)>>
  /\ out[3] = <<PyStr("b"), PyInt(-2), PyInt(0), PyInt(-2), Fixed1(-10), PyLabel(Jan)>>
  /\ out[5] = <<PyStr("TOTAL"), PyInt(0), PyInt(3), PyInt(3), Fixed1(15), PyStr("")>>

\* the labels at which the input gives a symbol a count, and the position
\* of the first entering row of each
LabelsOf(emoji) == {pivot_in[i][2] : i \in RowsOf(emoji)}
FirstSeen(emoji, period) == Least(RowsOfCell(emoji, period))

\* the labels at which the symbol's count is highest
TopLabels(emoji) ==
  {p \in LabelsOf(emoji) :
     \A q \in LabelsOf(emoji) : FinalCount(emoji, q) <= FinalCount(emoji, p)}

(***************************************************************************)
(* C24. max_period: in a rendered report the max_period cell of a symbol   *)
(* is a label at which the symbol's count is highest, and among the labels *)
(* tied for it the one whose first row comes first in the input; a later   *)
(* row that overwrites a count does not move its label in that order.      *)
(***************************************************************************)
C24_MaxPeriod ==
  Rendered =>
    \A r \in DataRows :
      LET emoji == out[r][1].v
          cell == out[r][Len(out[r])]
      IN /\ cell.t = "label"
         /\ cell.v \in TopLabels(emoji)
         /\ \A p \in TopLabels(emoji) :
              FirstSeen(emoji, cell.v) <= FirstSeen(emoji, p)

\* 2023-01 is seen first with 1, 2023-02 with 2, then 2023-01 is overwritten
\* with 2: the tie goes to 2023-01, whose first row came first
C24_Witness ==
  /\ pivot_pc = "written"
  /\ pivot_in = <<<<"a", Jan, PyInt(1)>>, <<"a", Feb, PyInt(2)>>,
                  <<"a", Jan, PyInt(2)>>>>
  /\ out[2] = <<PyStr("a"), PyInt(2), PyInt(2), PyInt(4), Fixed1(20), PyLabel(Jan)>>

\* 2023-02 is seen first: the tie goes to it, the second column
C24_WitnessNotColumnOrder ==
  /\ pivot_pc = "written"
  /\ pivot_in = <<<<"a", Feb, PyInt(2)>>, <<"a", Jan, PyInt(2)>>>>
  /\ out[2] = <<PyStr("a"), PyInt(2), PyInt(2), PyInt(4), Fixed1(20), PyLabel(Feb)>>

(***************************************************************************)
(* C25. Empty pivot: when no row of the input enters the pivot (the input  *)
(* is empty, or every row is skipped), the finished report is the one      *)
(* header row [emoji, total] and nothing else: no data row, no blank row,  *)
(* no TOTAL row; and the writer has nothing left to write.                 *)
(***************************************************************************)
C25_EmptyPivot ==
  (EnteringRows = {} /\ pivot_pc \in {"rows", "written"}) =>
    /\ pivot_pc = "written"
    /\ out = <<<<PyStr("emoji"), PyStr("total")>>>>

\* every row is skipped: one is incomplete, one has the count None, one a
\* count that is no number
C25_Witness ==
  /\ pivot_pc = "written"
  /\ pivot_in = <<<<"incomplete">>, <<"b", Feb, PyNone>>,
                  <<"a", Jan, PyStr("invalid")>>>>
  /\ Len(out) = 1
  /\ Len(out[1]) = 2

(***************************************************************************)
(* C26. Idempotence of the pivot: a second build and rendering from the    *)
(* same row list ends as the first did and leaves the same report; what    *)
(* the first left behind (the file it wrote) does not show in the second.  *)
(***************************************************************************)
C26_Idempotent ==
  (build_no = 2 /\ pivot_pc \in {"written", "raised"}) =>
    /\ pivot_pc = first.pc
    /\ out = first.out

\* the second rendering of a report of two symbols and two periods is done
C26_Witness ==
  /\ build_no = 2
  /\ pivot_pc = "written"
  /\ pivot_in = <<<<"b", Jan, PyInt(0)>>, <<"a", Feb, PyStr("3")>>,
                  <<"a", Jan, PyInt(1)>>>>
  /\ first.pc = "written"
  /\ Len(first.out) = 5
  /\ out[2] = <<PyStr("a"), PyInt(1), PyInt(3), PyInt(4), Fixed1(20), PyLabel(Feb)>>

(***************************************************************************)
(* The run, as the claims about its report read it.                        *)
(***************************************************************************)
Happened(e) == \E i \in 1..Len(run_log) : run_log[i].ev = e
Times(e) == Cardinality({i \in 1..Len(run_log) : run_log[i].ev = e})
Position(e) == CHOOSE i \in 1..Len(run_log) : run_log[i].ev = e

\* the report at the output path is the work of this run
ReportWritten == fs.report \in {"new", "partial"}

\* every row is the row of a pair in its place, and there are as many rows
\* as there are pairs before the one the loops are at
RowsOfEarlierPairs ==
  /\ Len(records) = PairOrdinal - 1
  /\ \A k \in 1..Len(records) :
       /\ records[k].emoji = emoji_list[((k - 1) \div Len(month_periods)) + 1]
       /\ records[k].month =
            StrftimeYm(month_periods[((k - 1) % Len(month_periods)) + 1])

(***************************************************************************)
(* C27. Cancellation never yields a half-formed row: when KeyboardInterrupt *)
(* is raised in a run, the run ends there (cli.main reports it) and no     *)
(* report is written, then or later; when it is raised while a pair is     *)
(* being processed - during its text query, or after it, during its        *)
(* reaction query - the rows are those of the earlier pairs and there is   *)
(* no row for that pair.                                                   *)
(***************************************************************************)
C27_NoHalfFormedRow ==
  Happened("KeyboardInterrupt") =>
    /\ run_log[Len(run_log)].ev = "KeyboardInterrupt"
    /\ Times("KeyboardInterrupt") = 1
    /\ run_pc = "interrupted"
    /\ result = "KeyboardInterrupt"
    /\ ~Happened("write_csv")
    /\ ~ReportWritten
    /\ run_log[Len(run_log)].at \in {"text", "reaction"} => RowsOfEarlierPairs

\* the interrupt comes between the two queries of the second pair: the text
\* query has returned 1, and the only row is that of the first pair
C27_Witness ==
  /\ run_pc = "interrupted"
  /\ run_log[Len(run_log)] = [ev |-> "KeyboardInterrupt", at |-> "reaction"]
  /\ text_count = 1
  /\ reaction_count = NoCount
  /\ PairOrdinal = 2
  /\ Len(records) = 1

(***************************************************************************)
(* C30. The report is handed over once and whole: in every run, also an    *)
(* interrupted one, write_csv is called at most once; when it is called    *)
(* the output path has passed validation, the backup of an existing file   *)
(* has been attempted before it, _perform_aggregation has returned and     *)
(* every pair of symbol and period has its row; and while pairs are still  *)
(* being processed no report is written.                                   *)
(***************************************************************************)
C30_ReportHandedOverOnce ==
  /\ Times("write_csv") <= 1
  /\ Happened("write_csv") =>
       /\ validate_output_path(args.path)
       /\ Happened("validate_output_path")
       /\ Happened("backup_existing_file")
       /\ Position("validate_output_path") < Position("backup_existing_file")
       /\ Position("backup_existing_file") < Position("write_csv")
       /\ run_log[Position("write_csv")].at = "done"
       /\ agg_pc = "done"
       /\ records # <<>>
       /\ Len(records) = Len(emoji_list) * Len(month_periods)
  /\ ReportWritten => Happened("write_csv")
  /\ agg_pc \in {"start", "emoji_loop", "month_loop", "text", "reaction"} =>
       ~ReportWritten /\ ~Happened("write_csv")

\* the report of a run of one pair is written over an old one, which was
\* backed up
C30_Witness ==
  /\ run_pc = "returned"
  /\ result = "True"
  /\ fs = [report |-> "new", backup |-> TRUE]
  /\ Len(records) = 1
  /\ run_log = <<[ev |-> "validate_output_path", at |-> "none"],
                 [ev |-> "backup_existing_file", at |-> "none"],
                 [ev |-> "write_csv", at |-> "done"]>>

(***************************************************************************)
(* C28. Progress counter: once the loop has started, total_queries is      *)
(* |symbols| x |periods| x 2 and processed_queries never exceeds it; each  *)
(* pair advances processed_queries by exactly 2, whether it succeeds or    *)
(* degrades, also when the text query returned and the reaction query      *)
(* raised (between the two queries of a pair the counter is one ahead);    *)
(* when the loop ends processed_queries equals total_queries.              *)
(***************************************************************************)
C28_ProgressCounter ==
  agg_pc \in {"emoji_loop", "month_loop", "text", "reaction", "done"} =>
    /\ total_queries = Len(emoji_list) * Len(month_periods) * 2
    /\ processed_queries <= total_queries
    /\ processed_queries =
         CASE agg_pc = "text" -> 2 * (PairOrdinal - 1)
           [] agg_pc = "reaction" -> 2 * (PairOrdinal - 1) + 1
           [] OTHER -> 2 * PairOrdinal
    /\ agg_pc = "done" => processed_queries = total_queries

(***************************************************************************)
(* The pace steps of a client operation, as its log has them.              *)
(***************************************************************************)
IsPace(e) == e.ev = "pace"
Paces(t) == Len(SelectSeq(log[t], IsPace))

\* the attempts of the operation of t that have passed their pace step
AttemptsPaced(t) ==
  IF pc[t] \in {"dispatch", "await", "backoff"}
       \/ (pc[t] = "done" /\ resp[t].kind # "429")
    THEN attempt[t]
    ELSE attempt[t] - 1

\* every dispatch comes right after a pace step and every pace step is
\* followed by a dispatch, at once or as the next step of the thread
PaceThenDispatch(t) ==
  /\ \A i \in 1..Len(log[t]) :
       /\ IsDispatch(log[t][i]) => i > 1 /\ IsPace(log[t][i - 1])
       /\ IsPace(log[t][i]) =>
            IF i < Len(log[t]) THEN IsDispatch(log[t][i + 1])
            ELSE pc[t] = "dispatch"
  /\ pc[t] = "dispatch" => log[t] # <<>> /\ IsPace(log[t][Len(log[t])])

\* t takes the step that ends its pace step
EndsPaceStep(t) == pc[t] = "write" /\ pc'[t] = "dispatch"

(***************************************************************************)
(* C29. Every dispatch is paced: each attempt of each client operation, a  *)
(* first attempt or a retry, runs the pace step exactly once, immediately  *)
(* before its dispatch; the last-call timestamp is written at the end of   *)
(* the pace step and nowhere else: not when the response arrives, and not  *)
(* by the backoff sleep after a 429 rejection.                             *)
(***************************************************************************)
C29_EveryDispatchPaced ==
  /\ [](\A t \in threads :
          /\ PaceThenDispatch(t)
          /\ pc[t] # "idle" =>
               /\ Paces(t) = AttemptsPaced(t)
               /\ Dispatches(t) = Paces(t) - (IF pc[t] = "dispatch" THEN 1 ELSE 0))
  /\ [][/\ \A t \in threads :
             /\ EndsPaceStep(t) => since_last_call' = 0
             /\ (pc[t] \in {"await", "backoff"} /\ pc'[t] # pc[t]) =>
                  since_last_call' = since_last_call
        /\ since_last_call' < since_last_call =>
             \E t \in threads : EndsPaceStep(t)]_vars

\* a retry: the second attempt has run its own pace step and is dispatched
C29_Witness ==
  /\ pc[Main] = "await"
  /\ attempt[Main] = 2
  /\ Len(log[Main]) = 6
  /\ IsPace(log[Main][1]) /\ IsDispatch(log[Main][2])
  /\ IsReject(log[Main][3]) /\ IsSleep(log[Main][4])
  /\ IsPace(log[Main][5]) /\ IsDispatch(log[Main][6])

====
